---- MODULE Spec2Model ----
(***************************************************************************)
(* Model of the karyana-backend order workflow (src/src/routes/order.ts,   *)
(* first snapshot of the file, lines 1-710) and of the cart routes it      *)
(* depends on (src/src/routes/cart.ts).                                    *)
(*                                                                         *)
(* The database tables are the variables.  Every HTTP request is handled   *)
(* in a request slot; a handler is split into one action per `await` that  *)
(* touches the database, so that requests interleave exactly where the     *)
(* Node.js event loop lets them interleave.  A database call that can      *)
(* throw takes its outcome (ok / failure) as an input of the action.       *)
(* prisma.$transaction is one action: its writes become visible together   *)
(* at commit, or not at all.                                               *)
(***************************************************************************)
EXTENDS Integers, Sequences, FiniteSets, TLC

\* ---------------------------------------------------------------- bounds
MaxQty == 2          \* largest quantity of one add-to-cart request
MaxCartQty == 2      \* largest total quantity held by all carts
MaxCartItems == 2    \* CartItem rows ever created
MaxOrders == 2       \* Order rows ever created
MaxTracking == 2     \* TrackingHistory rows ever created
MaxProducts == 4     \* Product rows ever created
MaxTime == 1         \* latest reading of the database clock
InitStock == 1       \* Product.stock of every product at the start
MaxSellers == 3      \* Seller rows ever created
MaxComplaints == 1   \* Complaint rows ever created
MaxReplies == 2      \* replies ever sent to one complaint or review
MaxTokens == 2       \* reset tokens ever generated
MaxClock == 7200001  \* latest reading of the server's clock

Users == {1, 2}
Products == {1, 2}
\* requests handled at the same time
Slots == {1, 2}
\* requests handled one after another
Sequential == {1}
OrderIds == 1..MaxOrders

\* Order.status is an open string; these are the values the requests use.
Statuses == {"PENDING", "DELIVERED", "CANCELLED"}
\* a request body without a status field
NoStatus == "none"

None == 0

\* the accounts a reset can name, by role and id
AccountRoles == {"USER", "SELLER"}
AccountKeys == ({"USER"} \X Users) \cup ({"SELLER"} \X (1..MaxSellers))
\* bcrypt.hash(password, 10)
Hash(password) == <<"bcrypt", password>>
\* a forgot-password token is valid for one hour
TokenTtl == 3600000

VARIABLES
    stock,          \* Product.stock, per product id
    carts,          \* Cart rows: [id, userId]
    cartItems,      \* CartItem rows: [id, cartId, productId, qty]
    orders,         \* Order rows: [id, userId, total, status]
    orderItems,     \* OrderItem rows: [orderId, line, productId, qty, price]
    payments,       \* Payment rows: [orderId, amount, status]
    trackingHistory,\* TrackingHistory rows, in creation order:
                    \* [orderId, status, createdAt]
    notifications,  \* Notification rows, by recipient and kind of message (the
                    \* distinct ones): [userId, sellerId, role, kind]
    nextOrderId,    \* Order id sequence
    nextCartItemId, \* CartItem id sequence
    now,            \* the database clock (CURRENT_TIMESTAMP)
    products,       \* Product rows but for stock, per product id:
                    \* [title, sellerId, categoryId, price]
    categories,     \* Category rows: [id, name, sellerId]
    sellers,        \* Seller rows: [id, approved]
    complaints,     \* Complaint rows, per complaint id: [userId, status, sellerReply]
    reviews,        \* Review rows, per review id: [userId, productId, reply]
    accounts,       \* User and Seller rows: [password, resetToken, resetTokenExpiry]
    dateNow,        \* the server's clock (Date.now()), in milliseconds
    resets,         \* per reset token issued, the password changes made with it
    imported,       \* the CSV import that ended last, when it ended with success and
                    \* no request touched the catalog since: [file, caller]
    req             \* the requests in flight: slot -> handler position and locals

\* the tables of the accounts, catalog and messages routes, and the clock
creds == <<accounts, dateNow, resets>>
others == <<products, categories, sellers, complaints, reviews, imported, creds>>
ext == <<now, others>>
db == <<stock, carts, cartItems, orders, orderItems, payments, trackingHistory,
        notifications, nextOrderId, nextCartItemId, ext>>
vars == <<stock, carts, cartItems, orders, orderItems, payments, trackingHistory,
          notifications, nextOrderId, nextCartItemId, ext, req>>

\* Product.price and Product.sellerId
Price(p) == products[p].price
SellerOf(p) == products[p].sellerId

\* ---------------------------------------------------------------- helpers
\* prisma.cart.findUnique({ where: { userId } }): found or not, and the id of the row
HasCart(u) == \E c \in carts : c.userId = u
CartOf(u) == IF HasCart(u) THEN (CHOOSE c \in carts : c.userId = u).id ELSE None

\* req.user of a verified token: role and id; the admin's token has id 0
NoCaller == [role |-> "", id |-> None]
Admin == [role |-> "ADMIN", id |-> 0]
Seller(id) == [role |-> "SELLER", id |-> id]

NoImport == [file |-> <<>>, caller |-> NoCaller]

\* The Authorization header of a request: absent, a token jwt.verify refuses (bad
\* signature or expired; what it carries is never read), or a token signed with
\* the server's secret, carrying role and id.
Buyer(id) == [role |-> "USER", id |-> id]
NoToken == [sig |-> "none", role |-> "", id |-> None]
Forged(c) == [sig |-> "bad", role |-> c.role, id |-> c.id]
Signed(c) == [sig |-> "ok", role |-> c.role, id |-> c.id]

NoResp == [code |-> 0, id |-> None, total |-> 0]
Resp(c) == [code |-> c, id |-> None, total |-> 0]

Idle == [op |-> "idle", pc |-> "idle", user |-> None, cart |-> None, order |-> None,
         status |-> NoStatus, product |-> None, qty |-> 0, existing |-> None,
         existingQty |-> 0,
         items |-> <<>>, total |-> 0, changed |-> FALSE,
         tlen |-> 0, fieldsOk |-> FALSE, sideFailed |-> FALSE, tracking |-> <<>>,
         caller |-> NoCaller, file |-> <<>>, k |-> 0, created |-> 0, updated |-> 0,
         again |-> FALSE, nProducts |-> 0, nCategories |-> 0,
         token |-> NoToken, ran |-> FALSE, seller |-> None, complaint |-> None,
         review |-> None, log |-> <<>>, text |-> "", approved |-> FALSE,
         match |-> FALSE, issued |-> NoToken, lines |-> {}, result |-> {},
         cartRows |-> {}, ids |-> {}, role |-> "", target |-> None,
         resetToken |-> None, newPassword |-> "",
         resp |-> NoResp]
\* Of these fields, changed (the request wrote a new status value to its order), tlen
\* (the number of TrackingHistory rows when it did), sideFailed (a side effect of
\* the request failed), again (the import repeats the import that ended last) and
\* nProducts, nCategories (the sizes of the tables when the import began) record what
\* happened, as do ran (the route's handler was entered) and lines (the OrderItem
\* rows of the order when the request began); the handlers do not read them.
\* cartRows are the CartItem rows a checkout read, of which items keeps productId,
\* qty and price.

\* A slot whose request has ended keeps the handler's name and the response.
Done(op, resp) == [Idle EXCEPT !.op = op, !.pc = "done", !.resp = resp]

\* The response of an ended request is delivered before any handler runs on:
\* delivery touches the slot alone, so this order loses no behaviour of the tables.
Quiet == \A x \in Slots : req[x].pc # "done"

\* A new request takes the lowest idle slot (the slots are interchangeable).
Free(r) == Quiet /\ req[r].pc = "idle" /\ \A x \in Slots : x < r => req[x].pc # "idle"

\* request r is at position pc of handler op
At(r, op, pc) == Quiet /\ req[r].op = op /\ req[r].pc = pc

\* the response has been delivered; the slot is idle again
Return(r) ==
    /\ req[r].pc = "done"
    /\ req' = [req EXCEPT ![r] = Idle]
    /\ UNCHANGED db

RECURSIVE SetToSeq(_)
\* rows of a query result, ordered by id
SetToSeq(S) ==
    IF S = {} THEN <<>>
    ELSE LET m == CHOOSE x \in S : \A y \in S : x.id <= y.id
         IN <<m>> \o SetToSeq(S \ {m})

RECURSIVE SumSeq(_, _)
\* items.reduce((sum, item) => sum + item.qty * item.price, 0)
SumSeq(s, i) ==
    IF i > Len(s) THEN 0 ELSE s[i].qty * s[i].price + SumSeq(s, i + 1)

RECURSIVE QtyOf(_, _, _)
\* total quantity the lines of s order of product p
QtyOf(s, p, i) ==
    IF i > Len(s) THEN 0
    ELSE (IF s[i].productId = p THEN s[i].qty ELSE 0) + QtyOf(s, p, i + 1)

OrderRow(o) == CHOOSE x \in orders : x.id = o
OrderExists(o) == \E x \in orders : x.id = o
HasPayment(o) == \E x \in payments : x.orderId = o
PaymentOf(o) == CHOOSE x \in payments : x.orderId = o
ItemsOfOrder(o) == {x \in orderItems : x.orderId = o}

RECURSIVE SumItems(_)
\* sum over OrderItem rows of qty * price
SumItems(S) ==
    IF S = {} THEN 0
    ELSE LET x == CHOOSE y \in S : TRUE
         IN x.qty * x.price + SumItems(S \ {x})

RECURSIVE SumQty(_)
\* total quantity held by a set of CartItem rows
SumQty(S) ==
    IF S = {} THEN 0
    ELSE LET x == CHOOSE y \in S : TRUE
         IN x.qty + SumQty(S \ {x})

\* quantity that cart rows and the add-to-cart requests in flight can still add up to
PendingQty ==
    SumQty({[id |-> r, qty |-> req[r].qty] : r \in {x \in Slots : req[x].op = "addToCart"}})

\* ---------------------------------------------------------------- Init
\* titles of the products in the catalog at the start
SeedTitle(p) == IF p = 1 THEN "apple" ELSE "bread"

Init ==
    /\ stock = [p \in Products |-> InitStock]
    /\ carts = {}
    /\ cartItems = {}
    /\ orders = {}
    /\ orderItems = {}
    /\ payments = {}
    /\ trackingHistory = <<>>
    /\ notifications = {}
    /\ nextOrderId = 1
    /\ nextCartItemId = 1
    /\ now = 0
    /\ products = [p \in Products |-> [title |-> SeedTitle(p), sellerId |-> 1,
                                        categoryId |-> 1, price |-> p]]
    /\ categories = {[id |-> 1, name |-> "grocery", sellerId |-> None]}
    /\ sellers = {[id |-> 1, approved |-> TRUE], [id |-> 2, approved |-> TRUE]}
    /\ imported = NoImport
    /\ accounts = [a \in AccountKeys |-> [password |-> Hash("old"), resetToken |-> None,
                                          resetTokenExpiry |-> None]]
    /\ dateNow = 0
    /\ resets = <<>>
    /\ complaints = <<>>
    /\ reviews = <<[userId |-> 1, productId |-> 1, reply |-> <<>>]>>
    /\ req = [r \in Slots |-> Idle]

\* ---------------------------------------------------------------- cart.ts
\* a validation that lets a quantity of zero pass
InvalidQtyStrict(q) == q < 0

\* qty <= 0 in: if (!productId || qty <= 0), if (qty <= 0)
InvalidQty(q) == q <= 0

\* POST /cart, up to the first write: validation, product lookup, cart lookup.
AddToCart(r, u, p, q) ==
    /\ Free(r)
    /\ nextCartItemId <= MaxCartItems
    /\ SumQty(cartItems) + PendingQty + q <= MaxCartQty
    /\ IF p = None \/ InvalidQty(q)
       THEN req' = [req EXCEPT ![r] = [Done("addToCart", Resp(400)) EXCEPT !.qty = q]]
       ELSE IF p \notin DOMAIN products
       THEN req' = [req EXCEPT ![r] = [Done("addToCart", Resp(404)) EXCEPT !.qty = q]]
       ELSE IF ~HasCart(u)
       THEN req' = [req EXCEPT ![r] = [Idle EXCEPT !.op = "addToCart",
                                       !.pc = "cart_create", !.user = u,
                                       !.product = p, !.qty = q]]
       ELSE LET found == {x \in cartItems : x.cartId = CartOf(u) /\ x.productId = p}
                existingItem == IF found = {} THEN [id |-> None, qty |-> 0]
                                ELSE CHOOSE x \in found : \A y \in found : x.id <= y.id
            IN req' = [req EXCEPT ![r] = [Idle EXCEPT !.op = "addToCart",
                                          !.pc = "item_write", !.user = u,
                                          !.cart = CartOf(u),
                                          !.product = p, !.qty = q,
                                          !.existing = existingItem.id,
                                          !.existingQty = existingItem.qty]]
    /\ UNCHANGED db

\* a Cart table without the unique index on userId
NoCartUserIdKey(rows, u) == TRUE

\* CREATE UNIQUE INDEX "Cart_userId_key": a row for user u can be inserted into rows
CartUserIdKey(rows, u) == \A c \in rows : c.userId # u

\* prisma.cart.create({ data: { userId } }), then cartItem.findFirst on the new cart.
\* The unique index on Cart.userId rejects a second cart of the same user; the
\* handler has no try/catch, so the request then ends without a response.
AddToCartCreateCart(r) ==
    /\ At(r, "addToCart", "cart_create")
    /\ IF ~CartUserIdKey(carts, req[r].user)
       THEN /\ req' = [req EXCEPT ![r] = [Done("addToCart", NoResp)
                                             EXCEPT !.user = req[r].user,
                                                    !.qty = req[r].qty]]
            /\ UNCHANGED carts
       ELSE /\ carts' = carts \cup {[id |-> Cardinality(carts) + 1,
                                     userId |-> req[r].user]}
            /\ req' = [req EXCEPT ![r].pc = "item_write", ![r].existing = None,
                                  ![r].cart = Cardinality(carts) + 1]
    /\ UNCHANGED <<stock, cartItems, orders, orderItems, payments, trackingHistory,
                   notifications, nextOrderId, nextCartItemId, ext>>

\* cartItem.update({ qty: existingItem.qty + qty }) or cartItem.create(...)
AddToCartWrite(r) ==
    /\ At(r, "addToCart", "item_write")
    /\ IF req[r].existing # None
       THEN IF \E x \in cartItems : x.id = req[r].existing
            THEN /\ cartItems' = {IF x.id = req[r].existing
                                  THEN [x EXCEPT !.qty = req[r].existingQty + req[r].qty]
                                  ELSE x
                                  : x \in cartItems}
                 /\ req' = [req EXCEPT ![r] = [Done("addToCart", Resp(200))
                                                  EXCEPT !.qty = req[r].qty,
                                                         !.existing = req[r].existing]]
                 /\ UNCHANGED nextCartItemId
            ELSE \* the row is gone (P2025): unhandled, no response
                 /\ req' = [req EXCEPT ![r] = [Done("addToCart", NoResp)
                                                  EXCEPT !.qty = req[r].qty]]
                 /\ UNCHANGED <<cartItems, nextCartItemId>>
       ELSE /\ cartItems' = cartItems \cup
                   {[id |-> nextCartItemId, cartId |-> req[r].cart,
                     productId |-> req[r].product, qty |-> req[r].qty]}
            /\ nextCartItemId' = nextCartItemId + 1
            /\ req' = [req EXCEPT ![r] = [Done("addToCart", Resp(200))
                                             EXCEPT !.qty = req[r].qty]]
    /\ UNCHANGED <<stock, carts, orders, orderItems, payments, trackingHistory,
                   notifications, nextOrderId, ext>>

\* PUT /cart/:id up to the write: validation, lookup of the row, ownership.
UpdateCartItem(r, u, id, q) ==
    /\ Free(r)
    /\ LET found == {x \in cartItems : x.id = id}
           end(code) == [Done("putCart", Resp(code)) EXCEPT !.qty = q, !.existing = id]
       IN req' = [req EXCEPT ![r] =
                    IF InvalidQty(q) THEN end(400)
                    ELSE IF found = {} THEN end(404)
                    ELSE IF \A c \in carts : c.id = (CHOOSE x \in found : TRUE).cartId
                                               => c.userId # u
                         THEN end(403)
                    ELSE [Idle EXCEPT !.op = "putCart", !.pc = "item_update",
                                      !.user = u, !.existing = id, !.qty = q]]
    /\ UNCHANGED db

\* prisma.cartItem.update({ where: { id: cartItemId }, data: { qty } }); when the row
\* is gone the call throws and, without try/catch, no response is sent.
UpdateCartItemWrite(r) ==
    /\ At(r, "putCart", "item_update")
    /\ IF \E x \in cartItems : x.id = req[r].existing
       THEN /\ cartItems' = {IF x.id = req[r].existing
                             THEN [x EXCEPT !.qty = req[r].qty] ELSE x : x \in cartItems}
            /\ req' = [req EXCEPT ![r] = [Done("putCart", Resp(200))
                                             EXCEPT !.qty = req[r].qty,
                                                    !.existing = req[r].existing]]
       ELSE /\ req' = [req EXCEPT ![r] = [Done("putCart", NoResp)
                                             EXCEPT !.qty = req[r].qty]]
            /\ UNCHANGED cartItems
    /\ UNCHANGED <<stock, carts, orders, orderItems, payments, trackingHistory,
                   notifications, nextOrderId, nextCartItemId, ext>>

\* ---------------------------------------------------------------- order.ts: checkout
\* the CartItem rows of the cart of user u
CartRowsOf(u) == {x \in cartItems : x.cartId = CartOf(u)}

\* cart.items with the included product, as read by prisma.cart.findUnique
CartSnapshot(u) ==
    LET rows == CartRowsOf(u)
        line(x) == [id |-> x.id, productId |-> x.productId, qty |-> x.qty,
                    price |-> Price(x.productId), stock |-> stock[x.productId]]
    IN SetToSeq({line(x) : x \in rows})

\* a checkout without the stock check
StockCheckSkipped(items) == TRUE

\* for (const item of cart.items) if (item.qty > item.product.stock) return 400
StockCheck(items) == \A i \in 1..Len(items) : items[i].qty <= items[i].stock

\* the three early returns of the handler; 0 when the request passes them
CheckoutReject(fieldsOk, u, items) ==
    IF ~fieldsOk THEN 400
    ELSE IF ~HasCart(u) \/ Len(items) = 0 THEN 400
    ELSE IF ~StockCheck(items) THEN 400
    ELSE 0

\* a snapshot of the cart lines that does not copy the price
LinesWithoutPrice(items) == [i \in 1..Len(items) |->
                                [productId |-> items[i].productId, qty |-> items[i].qty,
                                 price |-> 0]]

\* what the rest of the handler reads of cart.items: productId, qty, product.price
Lines(items) == [i \in 1..Len(items) |->
                    [productId |-> items[i].productId, qty |-> items[i].qty,
                     price |-> items[i].price]]

\* POST /orders/checkout up to the transaction: validation, cart read, stock check,
\* total.  fieldsOk: method, address, city and phone are all present.
Checkout(r, u, fieldsOk) ==
    /\ Free(r)
    /\ nextOrderId <= MaxOrders
    /\ LET items == IF HasCart(u) THEN CartSnapshot(u) ELSE <<>>
           code == CheckoutReject(fieldsOk, u, items)
       IN IF code # 0
          THEN req' = [req EXCEPT ![r] = [Done("checkout", Resp(code))
                                             EXCEPT !.user = u, !.fieldsOk = fieldsOk]]
          ELSE req' = [req EXCEPT ![r] = [Idle EXCEPT !.op = "checkout", !.pc = "tx",
                                          !.user = u, !.fieldsOk = fieldsOk,
                                          !.items = Lines(items),
                                          !.cartRows = CartRowsOf(u),
                                          !.total = SumSeq(items, 1)]]
    /\ UNCHANGED db

\* The tables the checkout transaction writes.
Tables == [stock |-> stock, cartItems |-> cartItems, orders |-> orders,
           orderItems |-> orderItems, payments |-> payments,
           nextOrderId |-> nextOrderId]

\* 1. tx.order.create with nested items
TxCreateOrder(d, u, items, total) ==
    [d EXCEPT !.orders = @ \cup {[id |-> d.nextOrderId, userId |-> u, total |-> total,
                                  status |-> "PENDING"]},
              !.orderItems = @ \cup {[orderId |-> d.nextOrderId, line |-> i,
                                      productId |-> items[i].productId,
                                      qty |-> items[i].qty, price |-> items[i].price]
                                     : i \in 1..Len(items)},
              !.nextOrderId = @ + 1]

\* a payment created as already paid
TxCreatePaymentPaid(d, orderId, total) ==
    [d EXCEPT !.payments = @ \cup {[orderId |-> orderId, amount |-> total,
                                    status |-> "SUCCESS"]}]

\* 2. tx.payment.create
TxCreatePayment(d, orderId, total) ==
    [d EXCEPT !.payments = @ \cup {[orderId |-> orderId, amount |-> total,
                                    status |-> "PENDING"]}]

\* 3. tx.product.update({ stock: { decrement: item.qty } }) for every line
TxUpdateStock(d, items) ==
    [d EXCEPT !.stock = [p \in DOMAIN @ |-> @[p] - QtyOf(items, p, 1)]]

\* deleteMany without the where clause
TxClearAllCarts(d, cartId) == [d EXCEPT !.cartItems = {}]

\* 4. tx.cartItem.deleteMany({ where: { cartId: cart.id } })
TxClearCart(d, cartId) ==
    [d EXCEPT !.cartItems = {x \in @ : x.cartId # cartId}]

\* the first k statements of the transaction callback, applied to d
TxSteps(d, u, items, total, k) ==
    LET d1 == IF k >= 1 THEN TxCreateOrder(d, u, items, total) ELSE d
        d2 == IF k >= 2 THEN TxCreatePayment(d1, d.nextOrderId, total) ELSE d1
        d3 == IF k >= 3 THEN TxUpdateStock(d2, items) ELSE d2
        d4 == IF k >= 4 THEN TxClearCart(d3, CartOf(u)) ELSE d3
    IN d4

\* prisma.$transaction without rollback: what the callback wrote stays
NoRollback(before, after, committed) == after

\* prisma.$transaction(async (tx) => ...): the callback's writes are kept when it
\* returns and discarded when it throws
Transaction(before, after, committed) == IF committed THEN after ELSE before

\* The transaction of the checkout.  failAt = 0: every statement succeeds and the
\* transaction commits; failAt = k: statement k throws after statements 1..k-1 ran.
\* After the commit the handler starts the side-effect block and sends the response
\* (no await in between).
CheckoutTransaction(r, failAt) ==
    /\ At(r, "checkout", "tx")
    /\ LET c == req[r]
           ran == IF failAt = 0 THEN 4 ELSE failAt - 1
           after == TxSteps(Tables, c.user, c.items, c.total, ran)
           d == Transaction(Tables, after, failAt = 0)
       IN /\ stock' = d.stock
          /\ cartItems' = d.cartItems
          /\ orders' = d.orders
          /\ orderItems' = d.orderItems
          /\ payments' = d.payments
          /\ nextOrderId' = d.nextOrderId
          /\ IF failAt = 0
             THEN req' = [req EXCEPT ![r].pc = "side", ![r].order = nextOrderId,
                                     ![r].resp = [code |-> 200, id |-> nextOrderId,
                                                  total |-> c.total]]
             ELSE req' = [req EXCEPT ![r] = Done("checkout", Resp(500))]
    /\ UNCHANGED <<carts, trackingHistory, notifications, nextCartItemId, ext>>

\* the sellers whose products are in the order (sellerMap)
SellersOf(items) == {SellerOf(items[i].productId) : i \in 1..Len(items)}

\* Notification rows of the side-effect block: buyer, then sellers, then admin; the
\* first createNotification that throws ends the block's notification part.
CheckoutNotifications(c, notifFailAt) ==
    LET n(u, s, role) == [userId |-> u, sellerId |-> s, role |-> role,
                          kind |-> "order placed"]
        made == IF notifFailAt = 0 THEN 3 ELSE notifFailAt - 1
    IN (IF made >= 1 THEN {n(c.user, None, "")} ELSE {})
       \cup (IF made >= 2 THEN {n(None, s, "") : s \in SellersOf(c.items)} ELSE {})
       \cup (IF made >= 3 THEN {n(None, None, "ADMIN")} ELSE {})

\* a failing side effect turned into a failed request
SideEffectThrows(resp, failed) == IF failed THEN Resp(500) ELSE resp

\* catch (notifErr) / catch (emailErr) / catch (waErr) / catch (globalSideEffectErr):
\* console.error only; the response already sent is what the caller gets
SideEffectCatch(resp, failed) == resp

\* The detached side-effect block: notifications, e-mails, WhatsApp calls.
CheckoutSideEffects(r, notifFailAt, mailOk, waOk) ==
    /\ At(r, "checkout", "side")
    /\ LET c == req[r]
           failed == notifFailAt # 0 \/ ~mailOk \/ ~waOk
       IN /\ notifications' = notifications \cup CheckoutNotifications(c, notifFailAt)
          /\ req' = [req EXCEPT ![r] = [Done("checkout", SideEffectCatch(c.resp, failed))
                                        EXCEPT !.sideFailed = failed]]
    /\ UNCHANGED <<stock, carts, cartItems, orders, orderItems, payments,
                   trackingHistory, nextOrderId, nextCartItemId, ext>>

\* ---------------------------------------------------------------- order.ts: status
\* status requests that may still append a TrackingHistory row
InFlightStatus == Cardinality({x \in Slots : req[x].op \in {"status", "tracking"}})

\* data: { status } of prisma.order.update: a field that is undefined is left alone
SetStatus(row, s) == IF s = NoStatus THEN row ELSE [row EXCEPT !.status = s]

\* PUT /orders/:id/status (op = "status") and POST /orders/tracking (op = "tracking")
\* up to and including prisma.order.update.  ok = FALSE: the database call throws.
UpdateStatus(r, op, o, s, ok) ==
    /\ Free(r)
    /\ Len(trackingHistory) + InFlightStatus < MaxTracking
    /\ IF op = "status" /\ s = NoStatus
       THEN /\ req' = [req EXCEPT ![r] = Done(op, Resp(400))]
            /\ UNCHANGED orders
       ELSE IF ~ok \/ ~OrderExists(o)
       THEN /\ req' = [req EXCEPT ![r] = Done(op, Resp(500))]
            /\ UNCHANGED orders
       ELSE /\ orders' = {IF x.id = o THEN SetStatus(x, s) ELSE x : x \in orders}
            /\ req' = [req EXCEPT ![r] =
                         [Idle EXCEPT !.op = op, !.order = o, !.status = s,
                                      !.user = OrderRow(o).userId,
                                      !.changed = (s # NoStatus /\ OrderRow(o).status # s),
                                      !.tlen = Len(trackingHistory),
                                      !.pc = IF s = "DELIVERED" /\ HasPayment(o)
                                             THEN "payment" ELSE "track"]]
    /\ UNCHANGED <<stock, carts, cartItems, orderItems, payments, trackingHistory,
                   notifications, nextOrderId, nextCartItemId, ext>>

\* the request ends in the catch block: 500, after the order was updated
StatusFailed(c) ==
    [Done(c.op, Resp(500)) EXCEPT !.order = c.order, !.status = c.status,
                                  !.changed = c.changed, !.tlen = c.tlen]

\* if (status === "DELIVERED" && updated.payment) prisma.payment.update(SUCCESS)
SyncPayment(r, op, ok) ==
    /\ At(r, op, "payment")
    /\ op \in {"status", "tracking"}
    /\ IF ok /\ HasPayment(req[r].order)
       THEN /\ payments' = {IF x.orderId = req[r].order
                            THEN [x EXCEPT !.status = "SUCCESS"] ELSE x : x \in payments}
            /\ req' = [req EXCEPT ![r].pc = "track"]
       ELSE /\ req' = [req EXCEPT ![r] = StatusFailed(req[r])]
            /\ UNCHANGED payments
    /\ UNCHANGED <<stock, carts, cartItems, orders, orderItems, trackingHistory,
                   notifications, nextOrderId, nextCartItemId, ext>>

\* DEFAULT CURRENT_TIMESTAMP: the database clock, dt after its last reading
CurrentTimestamp(clock, dt) == clock + dt

\* prisma.trackingHistory.create({ orderId, status, message }).  It throws when the
\* database call fails, when the order row is gone (foreign key) and when status is
\* missing (required column).  dt: the time passed since the clock was last read.
CreateTracking(r, op, ok, dt) ==
    /\ At(r, op, "track")
    /\ op \in {"status", "tracking"}
    /\ now + dt <= MaxTime
    /\ LET c == req[r]
           createdAt == CurrentTimestamp(now, dt)
       IN IF ok /\ OrderExists(c.order) /\ c.status # NoStatus
          THEN /\ trackingHistory' = Append(trackingHistory,
                                            [orderId |-> c.order, status |-> c.status,
                                             createdAt |-> createdAt])
               /\ now' = createdAt
               /\ req' = [req EXCEPT ![r] =
                            IF op = "tracking"
                            THEN [Done(op, Resp(200)) EXCEPT !.order = c.order,
                                      !.status = c.status, !.changed = c.changed,
                                      !.tlen = c.tlen]
                            ELSE [c EXCEPT !.pc = "notify"]]
          ELSE /\ req' = [req EXCEPT ![r] = StatusFailed(c)]
               /\ UNCHANGED <<trackingHistory, now>>
    /\ UNCHANGED <<stock, carts, cartItems, orders, orderItems, payments,
                   notifications, nextOrderId, nextCartItemId, others>>

RECURSIVE OrderByCreatedAtDesc(_)
\* orderBy: { createdAt: "desc" }
OrderByCreatedAtDesc(s) ==
    IF s = <<>> THEN <<>>
    ELSE LET i == CHOOSE i \in 1..Len(s) :
                     \A j \in 1..Len(s) :
                        \/ s[i].createdAt > s[j].createdAt
                        \/ s[i].createdAt = s[j].createdAt /\ i <= j
         IN <<s[i]>> \o OrderByCreatedAtDesc(SubSeq(s, 1, i - 1) \o SubSeq(s, i + 1, Len(s)))

RECURSIVE OrderByCreatedAt(_)
\* orderBy: { createdAt: "asc" }; rows of equal createdAt in creation order
OrderByCreatedAt(s) ==
    IF s = <<>> THEN <<>>
    ELSE LET i == CHOOSE i \in 1..Len(s) :
                     \A j \in 1..Len(s) :
                        \/ s[i].createdAt < s[j].createdAt
                        \/ s[i].createdAt = s[j].createdAt /\ i <= j
         IN <<s[i]>> \o OrderByCreatedAt(SubSeq(s, 1, i - 1) \o SubSeq(s, i + 1, Len(s)))

\* the TrackingHistory rows of order o, in creation order
TrackingOf(o) == SelectSeq(trackingHistory, LAMBDA x : x.orderId = o)

\* GET /orders/:id/tracking
GetTracking(r, o) ==
    /\ Free(r)
    /\ req' = [req EXCEPT ![r] =
                 IF ~OrderExists(o) THEN [Done("getTracking", Resp(404)) EXCEPT !.order = o]
                 ELSE [Done("getTracking", Resp(200))
                          EXCEPT !.order = o, !.status = OrderRow(o).status,
                                 !.tracking = OrderByCreatedAt(TrackingOf(o))]]
    /\ UNCHANGED db

\* PUT /orders/:id/status, steps 4 and 5: mail and notification to the buyer, each
\* in its own try/catch, then the success response.
StatusSideEffects(r, mailOk, notifOk) ==
    /\ At(r, "status", "notify")
    /\ LET c == req[r]
       IN /\ notifications' = notifications \cup
                (IF notifOk
                 THEN {[userId |-> c.user, sellerId |-> None, role |-> "",
                        kind |-> "status updated"]}
                 ELSE {})
          /\ req' = [req EXCEPT ![r] =
                       [Done("status", Resp(200)) EXCEPT !.order = c.order,
                            !.status = c.status, !.changed = c.changed,
                            !.tlen = c.tlen, !.sideFailed = ~mailOk \/ ~notifOk]]
    /\ UNCHANGED <<stock, carts, cartItems, orders, orderItems, payments,
                   trackingHistory, nextOrderId, nextCartItemId, ext>>

\* ---------------------------------------------------------------- order.ts: delete, create
\* DELETE /orders/:id up to the first write: lookup, ownership, status PENDING.
DeleteOrder(r, u, o) ==
    /\ Free(r)
    /\ LET c == [Idle EXCEPT !.op = "delete", !.pc = "del_items", !.user = u,
                             !.order = o, !.lines = ItemsOfOrder(o)]
           end(code) == [c EXCEPT !.pc = "done", !.resp = Resp(code)]
       IN req' = [req EXCEPT ![r] =
                    IF ~OrderExists(o) THEN end(404)
                    ELSE IF OrderRow(o).userId # u THEN end(403)
                    ELSE IF OrderRow(o).status # "PENDING" THEN end(400)
                    ELSE c]
    /\ UNCHANGED db

\* prisma.orderItem.deleteMany({ where: { orderId } })
DeleteOrderItems(r) ==
    /\ At(r, "delete", "del_items")
    /\ orderItems' = {x \in orderItems : x.orderId # req[r].order}
    /\ req' = [req EXCEPT ![r].pc = "del_order"]
    /\ UNCHANGED <<stock, carts, cartItems, orders, payments, trackingHistory,
                   notifications, nextOrderId, nextCartItemId, ext>>

\* rows that reference Order(id) with ON DELETE RESTRICT
Referenced(o) ==
    \/ \E x \in orderItems : x.orderId = o
    \/ \E x \in payments : x.orderId = o
    \/ \E i \in 1..Len(trackingHistory) : trackingHistory[i].orderId = o

\* prisma.order.delete({ where: { id: orderId } }).  It throws when the row is gone
\* or still referenced; the handler has no try/catch, so no response is sent then.
DeleteOrderRow(r) ==
    /\ At(r, "delete", "del_order")
    /\ LET o == req[r].order
       IN IF OrderExists(o) /\ ~Referenced(o)
          THEN /\ orders' = {x \in orders : x.id # o}
               /\ req' = [req EXCEPT ![r] = [@ EXCEPT !.pc = "done", !.resp = Resp(200)]]
          ELSE /\ req' = [req EXCEPT ![r] = [@ EXCEPT !.pc = "done", !.resp = NoResp]]
               /\ UNCHANGED orders
    /\ UNCHANGED <<stock, carts, cartItems, orderItems, payments, trackingHistory,
                   notifications, nextOrderId, nextCartItemId, ext>>

\* POST /orders: an order of one line made from the request body, without Payment,
\* stock check or stock change.
CreateOrder(r, u, p, q) ==
    /\ Free(r)
    /\ nextOrderId <= MaxOrders
    /\ orders' = orders \cup {[id |-> nextOrderId, userId |-> u, total |-> Price(p) * q,
                               status |-> "PENDING"]}
    /\ orderItems' = orderItems \cup {[orderId |-> nextOrderId, line |-> 1,
                                       productId |-> p, qty |-> q, price |-> Price(p)]}
    /\ nextOrderId' = nextOrderId + 1
    /\ req' = [req EXCEPT ![r] = [Done("create", Resp(200)) EXCEPT !.order = nextOrderId]]
    /\ UNCHANGED <<stock, carts, cartItems, payments, trackingHistory, notifications,
                   nextCartItemId, ext>>

\* ---------------------------------------------------------------- product update
\* PUT /products/:id: lookup, ownership, then one transaction that rewrites the row
\* (the request keeps the product's title and category; price and stock are given).
\* ok = FALSE: the transaction throws and is rolled back.
UpdateProduct(r, caller, p, price, stk, ok) ==
    /\ Free(r)
    /\ LET end(code) == [Done("putProduct", Resp(code)) EXCEPT !.product = p]
           finalSellerId == IF caller.role = "SELLER" THEN caller.id
                            ELSE products[p].sellerId
       IN IF p \notin DOMAIN products
          THEN /\ req' = [req EXCEPT ![r] = end(404)]
               /\ UNCHANGED <<products, stock, imported>>
          ELSE IF caller.role # "ADMIN" /\ products[p].sellerId # caller.id
          THEN /\ req' = [req EXCEPT ![r] = end(403)]
               /\ UNCHANGED <<products, stock, imported>>
          ELSE IF ~ok
          THEN /\ req' = [req EXCEPT ![r] = end(500)]
               /\ UNCHANGED <<products, stock, imported>>
          ELSE /\ products' = [products EXCEPT ![p] = [@ EXCEPT !.price = price,
                                                               !.sellerId = finalSellerId]]
               /\ stock' = [stock EXCEPT ![p] = stk]
               /\ imported' = NoImport
               /\ req' = [req EXCEPT ![r] = end(200)]
    /\ UNCHANGED <<carts, cartItems, orders, orderItems, payments, trackingHistory,
                   notifications, nextOrderId, nextCartItemId, now, categories, sellers,
                   complaints, reviews, creds>>

\* ---------------------------------------------------------------- bulk import
\* String(catName).trim() and the case-insensitive comparison of Postgres
\* (mode: "insensitive"), on the names the files use
Trim(s) == IF s = " Dairy" THEN "Dairy" ELSE s
Lower(s) ==
    CASE s = "Dairy" -> "dairy"
      [] s = "Apple" -> "apple"
      [] s = "MILK" -> "milk"
      [] s = "BREAD" -> "bread"
      [] OTHER -> s
EqualsInsensitive(a, b) == Lower(a) = Lower(b)

\* a row of the CSV file: the columns ID, Title, Category, Price, Stock, SellerID; a
\* row without ID has id None, without Category category "", without SellerID
\* sellerId None
RowOf(id, title, category, price, stk, sellerId) ==
    [id |-> id, title |-> title, category |-> category, price |-> price, stock |-> stk,
     sellerId |-> sellerId]

\* a row without the SellerID column
Row(id, title, category, price, stk) == RowOf(id, title, category, price, stk, None)

\* the files uploaded
Files ==
    { <<Row(None, "milk", "Dairy", 3, 1)>>,
      <<Row(1, "apple", " Dairy", 3, 0)>>,
      <<Row(9, "MILK", "", 1, 1)>>,
      <<Row(None, "milk", "dairy", 1, 1), Row(None, "MILK", "Dairy", 3, 1)>>,
      <<Row(None, "Apple", "", 1, 1), Row(1, "cider", "", 1, 1)>>,
      <<RowOf(None, "BREAD", "", 3, 0, 1), RowOf(None, "milk", "", 1, 1, 1)>> }

ProductIds == DOMAIN products

\* prisma.category.findFirst({ where: { name: { equals, mode: "insensitive" } } })
FindCategory(cats, name) == {c \in cats : EqualsInsensitive(c.name, name)}

\* prisma.product.findFirst({ where: { title: { equals, mode: "insensitive" }, sellerId } })
FindDuplicate(prods, title, sellerId) ==
    {p \in DOMAIN prods : EqualsInsensitive(prods[p].title, title)
                           /\ prods[p].sellerId = sellerId}

\* the lowest id of a non-empty set of rows found (findFirst without orderBy)
First(ids) == CHOOSE x \in ids : \A y \in ids : x <= y

\* the category step of a row: the categories afterwards and the row's categoryId
ImportCategory(cats, caller, row) ==
    IF row.category = "" THEN [categories |-> cats, categoryId |-> 1]
    ELSE LET safeName == Trim(row.category)
             cat == FindCategory(cats, safeName)
             newId == Cardinality(cats) + 1
         IN IF cat # {}
            THEN [categories |-> cats, categoryId |-> First({c.id : c \in cat})]
            ELSE [categories |-> cats \cup
                       {[id |-> newId, name |-> safeName,
                         sellerId |-> IF caller.role = "ADMIN" THEN None ELSE caller.id]},
                  categoryId |-> newId]

\* prisma.product.update({ where: { id }, data: productData }): title, price, stock and
\* categoryId are written, sellerId is not
ImportUpdate(t, id, row, categoryId) ==
    [t EXCEPT !.products[id] = [@ EXCEPT !.title = row.title, !.price = row.price,
                                         !.categoryId = categoryId],
              !.stock[id] = row.stock,
              !.updated = @ + 1]

\* prisma.product.create({ data: { ...productData, sellerId, image } }); the foreign
\* key Product_sellerId_fkey needs the seller to exist
ImportCreate(t, sellerId, row, categoryId) ==
    LET id == Cardinality(DOMAIN t.products) + 1
    IN IF \A x \in sellers : x.id # sellerId
       THEN [t EXCEPT !.threw = TRUE]
       ELSE [t EXCEPT !.products = [p \in DOMAIN @ \cup {id} |->
                                      IF p = id
                                      THEN [title |-> row.title, sellerId |-> sellerId,
                                            categoryId |-> categoryId, price |-> row.price]
                                      ELSE @[p]],
                      !.stock = [p \in DOMAIN @ \cup {id} |->
                                   IF p = id THEN row.stock ELSE @[p]],
                      !.created = @ + 1]

\* sellerId: row.SellerID ? Number(row.SellerID) : sellerId, in the duplicate search
\* and in the create
RowSeller(caller, row) == IF row.sellerId # None THEN row.sellerId ELSE caller.id

\* the product step of a row: update by ID, update of the duplicate, or create
ImportProduct(t, caller, row, categoryId) ==
    LET owner == RowSeller(caller, row)
        duplicate == FindDuplicate(t.products, row.title, owner)
    IN IF row.id # None /\ row.id \in DOMAIN t.products
       THEN IF caller.role = "ADMIN" \/ t.products[row.id].sellerId = caller.id
            THEN ImportUpdate(t, row.id, row, categoryId)
            ELSE t
       ELSE IF duplicate # {}
            THEN ImportUpdate(t, First(duplicate), row, categoryId)
            ELSE ImportCreate(t, owner, row, categoryId)

\* POST /bulk/products/import: the file is parsed and the row loop begins.
ImportStart(r, caller, file) ==
    /\ Free(r)
    /\ Cardinality(ProductIds) + Len(file) <= MaxProducts
    /\ req' = [req EXCEPT ![r] =
                 [Idle EXCEPT !.op = "import", !.pc = "row", !.caller = caller,
                              !.file = file, !.k = 1,
                              !.again = (imported = [file |-> file, caller |-> caller]),
                              !.nProducts = Cardinality(ProductIds),
                              !.nCategories = Cardinality(categories)]]
    /\ imported' = NoImport
    /\ UNCHANGED <<stock, carts, cartItems, orders, orderItems, payments, trackingHistory,
                   notifications, nextOrderId, nextCartItemId, now, products,
                   categories, sellers, complaints, reviews, creds>>

\* a response that reports the counts reached before the error
ImportFailedWithCounts(c) ==
    [Done("import", Resp(500)) EXCEPT !.k = c.k, !.file = c.file,
                                      !.created = c.created, !.updated = c.updated]

\* catch (error): res.status(500).json({ error: "Import failed", details })
ImportFailed(c) == [Done("import", Resp(500)) EXCEPT !.k = c.k, !.file = c.file]

\* One pass of the row loop, or the response after the last row.  failAt = 1: the
\* category step of the row throws; failAt = 2: the product step throws (after the
\* category step); failAt = 0: no database error.
ImportRow(r, failAt) ==
    /\ At(r, "import", "row")
    /\ LET c == req[r]
       IN IF c.k > Len(c.file)
          THEN \* res.json({ message: `Processed successfully: ...` })
               /\ failAt = 0
               /\ req' = [req EXCEPT ![r] =
                            [Done("import", Resp(200))
                                EXCEPT !.k = c.k, !.file = c.file, !.created = c.created,
                                       !.updated = c.updated, !.again = c.again,
                                       !.nProducts = c.nProducts,
                                       !.nCategories = c.nCategories]]
               /\ imported' = [file |-> c.file, caller |-> c.caller]
               /\ UNCHANGED <<products, stock, categories>>
          ELSE LET row == c.file[c.k]
                   cat == ImportCategory(categories, c.caller, row)
                   t0 == [products |-> products, stock |-> stock, created |-> c.created,
                          updated |-> c.updated, threw |-> FALSE]
                   t == ImportProduct(t0, c.caller, row, cat.categoryId)
               IN /\ UNCHANGED imported
                  /\ IF failAt = 1
                     THEN /\ req' = [req EXCEPT ![r] = ImportFailed(c)]
                          /\ UNCHANGED <<products, stock, categories>>
                     ELSE IF failAt = 2 \/ t.threw
                     THEN /\ req' = [req EXCEPT ![r] = ImportFailed(c)]
                          /\ categories' = cat.categories
                          /\ UNCHANGED <<products, stock>>
                     ELSE /\ req' = [req EXCEPT ![r].k = c.k + 1,
                                                ![r].created = t.created,
                                                ![r].updated = t.updated]
                          /\ categories' = cat.categories
                          /\ products' = t.products
                          /\ stock' = t.stock
    /\ UNCHANGED <<carts, cartItems, orders, orderItems, payments, trackingHistory,
                   notifications, nextOrderId, nextCartItemId, now, sellers,
                   complaints, reviews, creds>>

\* ---------------------------------------------------------------- specifications
\* Cart and checkout, with every input and outcome, two requests at a time.
Next ==
    \/ \E r \in Slots : Return(r)
    \/ \E r \in Slots, u \in Users, p \in Products \cup {None}, q \in 0..MaxQty :
          AddToCart(r, u, p, q)
    \/ \E r \in Slots : AddToCartCreateCart(r)
    \/ \E r \in Slots : AddToCartWrite(r)
    \/ \E r \in Slots, u \in Users, fieldsOk \in BOOLEAN : Checkout(r, u, fieldsOk)
    \/ \E r \in Slots, failAt \in 0..4 : CheckoutTransaction(r, failAt)
    \/ \E r \in Slots, notifFailAt \in 0..3, mailOk \in BOOLEAN, waOk \in BOOLEAN :
          CheckoutSideEffects(r, notifFailAt, mailOk, waOk)

Spec == Init /\ [][Next]_vars

\* The cart routes alone, two requests at a time, with zero and negative quantities.
NextCart ==
    \/ \E r \in Slots : Return(r)
    \/ \E r \in Slots, u \in Users, p \in Products \cup {None}, q \in -1..MaxQty :
          AddToCart(r, u, p, q)
    \/ \E r \in Slots : AddToCartCreateCart(r)
    \/ \E r \in Slots : AddToCartWrite(r)
    \/ \E r \in Slots, u \in Users, id \in 1..MaxCartItems, q \in -1..MaxQty :
          UpdateCartItem(r, u, id, q)
    \/ \E r \in Slots : UpdateCartItemWrite(r)

SpecCart == Init /\ [][NextCart]_vars

\* Prices and orders, one request at a time: orders of buyer 1 made by checkout and
\* by POST /orders, product updates by the two sellers and the admin, and CSV imports
\* of seller 1 that change the price of product 1.
Callers == {Seller(1), Seller(2), Admin}
NewPrices == {1, 3}
PriceFiles == {f \in Files : Len(f) = 1 /\ f[1].id = 1}

NextCatalog ==
    \/ \E r \in Sequential : Return(r)
    \/ \E r \in Sequential, p \in Products : AddToCart(r, 1, p, 1)
    \/ \E r \in Sequential : AddToCartCreateCart(r)
    \/ \E r \in Sequential : AddToCartWrite(r)
    \/ \E r \in Sequential : Checkout(r, 1, TRUE)
    \/ \E r \in Sequential : CheckoutTransaction(r, 0)
    \/ \E r \in Sequential : CheckoutSideEffects(r, 0, TRUE, TRUE)
    \/ \E r \in Sequential, p \in Products : CreateOrder(r, 1, p, 1)
    \/ \E r \in Sequential, caller \in Callers, p \in Products, price \in NewPrices,
          ok \in BOOLEAN : UpdateProduct(r, caller, p, price, InitStock, ok)
    \/ \E r \in Sequential, file \in PriceFiles : ImportStart(r, Seller(1), file)
    \/ \E r \in Sequential : ImportRow(r, 0)

SpecCatalog == Init /\ [][NextCatalog]_vars

\* The CSV import alone, one request at a time: every file, caller and database error.
NextImport ==
    \/ \E r \in Sequential : Return(r)
    \/ \E r \in Sequential, caller \in Callers, file \in Files :
          ImportStart(r, caller, file)
    \/ \E r \in Sequential, failAt \in 0..2 : ImportRow(r, failAt)

SpecImport == Init /\ [][NextImport]_vars

\* The life cycle of orders, one request at a time: orders made by checkout (buyer 1,
\* product 1, quantity 1, no failure) and by POST /orders, then status updates,
\* tracking updates and deletions with every input and outcome.
NextLifecycle ==
    \/ \E r \in Sequential : Return(r)
    \/ \E r \in Sequential : AddToCart(r, 1, 1, 1)
    \/ \E r \in Sequential : AddToCartCreateCart(r)
    \/ \E r \in Sequential : AddToCartWrite(r)
    \/ \E r \in Sequential : Checkout(r, 1, TRUE)
    \/ \E r \in Sequential : CheckoutTransaction(r, 0)
    \/ \E r \in Sequential : CheckoutSideEffects(r, 0, TRUE, TRUE)
    \/ \E r \in Sequential, u \in Users : CreateOrder(r, u, 1, 1)
    \/ \E r \in Sequential, op \in {"status", "tracking"}, o \in OrderIds,
          s \in Statuses \cup {NoStatus}, ok \in BOOLEAN : UpdateStatus(r, op, o, s, ok)
    \/ \E r \in Sequential, op \in {"status", "tracking"}, ok \in BOOLEAN :
          SyncPayment(r, op, ok)
    \/ \E r \in Sequential, op \in {"status", "tracking"}, ok \in BOOLEAN :
          CreateTracking(r, op, ok, 0)
    \/ \E r \in Sequential, mailOk \in BOOLEAN, notifOk \in BOOLEAN :
          StatusSideEffects(r, mailOk, notifOk)
    \/ \E r \in Sequential, u \in Users, o \in OrderIds : DeleteOrder(r, u, o)
    \/ \E r \in Sequential : DeleteOrderItems(r)
    \/ \E r \in Sequential : DeleteOrderRow(r)

SpecLifecycle == Init /\ [][NextLifecycle]_vars

\* The tracking timeline, two requests at a time: orders made by POST /orders, status
\* and tracking updates at any reading of the clock, reads of the timeline, deletions.
NextTracking ==
    \/ \E r \in Slots : Return(r)
    \/ \E r \in Slots : CreateOrder(r, 1, 1, 1)
    \/ \E r \in Slots, op \in {"status", "tracking"}, o \in OrderIds,
          s \in Statuses \cup {NoStatus}, ok \in BOOLEAN : UpdateStatus(r, op, o, s, ok)
    \/ \E r \in Slots, op \in {"status", "tracking"}, ok \in BOOLEAN, dt \in 0..1 :
          CreateTracking(r, op, ok, dt)
    \/ \E r \in Slots : StatusSideEffects(r, TRUE, TRUE)
    \/ \E r \in Slots, o \in OrderIds : GetTracking(r, o)
    \/ \E r \in Slots, o \in OrderIds : DeleteOrder(r, 1, o)
    \/ \E r \in Slots : DeleteOrderItems(r)
    \/ \E r \in Slots : DeleteOrderRow(r)

SpecTracking == Init /\ [][NextTracking]_vars

\* ---------------------------------------------------------------- auth.ts: middleware
\* the tables the accounts and messages routes never touch
shop == <<stock, carts, cartItems, orders, orderItems, payments, trackingHistory,
          nextOrderId, nextCartItemId, now, products, categories, imported, creds>>

\* authenticateToken: 401 without a token, 403 when jwt.verify fails, else next() (0)
AuthenticateToken(token) ==
    IF token.sig = "none" THEN 401
    ELSE IF token.sig # "ok" THEN 403
    ELSE 0

\* req.user as authenticateToken leaves it
ReqUser(token) ==
    IF AuthenticateToken(token) = 0 THEN [role |-> token.role, id |-> token.id]
    ELSE NoCaller

\* a role check that lets every verified token through
VerifyRolesAny(roles, user) == IF user = NoCaller THEN 401 ELSE 0

\* verifyRoles(...roles): 401 without req.user, 403 when the role is not listed
VerifyRoles(roles, user) ==
    IF user = NoCaller THEN 401
    ELSE IF user.role \notin roles THEN 403
    ELSE 0

\* router.<method>(path, authenticateToken, verifyRoles(...roles), handler): the
\* status the middleware chain answers with, 0 when the handler is called
Guard(roles, token) ==
    IF AuthenticateToken(token) # 0 THEN AuthenticateToken(token)
    ELSE VerifyRoles(roles, ReqUser(token))

\* the allow-list each guarded route is registered with
Roles(op) ==
    CASE op = "approve" -> {"ADMIN"}
      [] op = "reject" -> {"ADMIN"}
      [] op = "complaint" -> {"USER"}
      [] op = "reply" -> {"SELLER", "ADMIN"}
      [] op = "userReply" -> {"USER"}

\* a request the middleware answered
Refused(op, token, code) == [Done(op, Resp(code)) EXCEPT !.token = token]

\* a request whose handler was called
Entered(op, pc, token) ==
    [Idle EXCEPT !.op = op, !.pc = pc, !.token = token, !.ran = TRUE,
                 !.caller = ReqUser(token)]

\* createNotification(data): absent recipients are stored as null
CreateNotification(userId, sellerId, role, kind) ==
    [userId |-> userId, sellerId |-> sellerId, role |-> role, kind |-> kind]

\* ---------------------------------------------------------------- auth routes, admin.ts
SellerIds == {s.id : s \in sellers}
SellerRow(id) == CHOOSE s \in sellers : s.id = id
SetApproved(rows, id, flag) ==
    {IF s.id = id THEN [s EXCEPT !.approved = flag] ELSE s : s \in rows}

\* POST /auth/seller-register. dup: the e-mail is taken, prisma.seller.create throws.
\* The catch block answers 400 also when the notification fails after the row
\* was created.
SellerRegister(r, fieldsOk, dup, notifOk) ==
    /\ Free(r)
    /\ Cardinality(sellers) < MaxSellers
    /\ IF ~fieldsOk \/ dup
       THEN /\ req' = [req EXCEPT ![r] = Done("sellerRegister", Resp(400))]
            /\ UNCHANGED db
       ELSE LET id == Cardinality(sellers) + 1
            IN /\ sellers' = sellers \cup {[id |-> id, approved |-> FALSE]}
               /\ notifications' =
                     IF notifOk
                     THEN notifications \cup
                            {CreateNotification(None, None, "ADMIN", "seller application")}
                     ELSE notifications
               /\ req' = [req EXCEPT ![r] =
                            [Done("sellerRegister",
                                  IF notifOk THEN Resp(200) ELSE Resp(400))
                             EXCEPT !.seller = id, !.sideFailed = ~notifOk]]
               /\ UNCHANGED <<shop, complaints, reviews>>

\* POST /auth/seller-login up to bcrypt.compare: the body check and the row read
SellerLogin(r, id, fieldsOk) ==
    /\ Free(r)
    /\ IF ~fieldsOk
       THEN req' = [req EXCEPT ![r] = Done("sellerLogin", Resp(400))]
       ELSE IF id \notin SellerIds
       THEN req' = [req EXCEPT ![r] = [Done("sellerLogin", Resp(404))
                                       EXCEPT !.seller = id]]
       ELSE req' = [req EXCEPT ![r] =
                      [Idle EXCEPT !.op = "sellerLogin", !.pc = "compare",
                                   !.seller = id,
                                   !.approved = SellerRow(id).approved]]
    /\ UNCHANGED db

\* a login that asks for the password alone
LoginRefusalPasswordOnly(match, approved) == IF ~match THEN 401 ELSE 0

\* the checks after bcrypt.compare: 401 on a wrong password, 403 when the row read
\* is not approved, else 0
LoginRefusal(match, approved) ==
    IF ~match THEN 401
    ELSE IF ~approved THEN 403
    ELSE 0

\* POST /auth/seller-login after bcrypt.compare: the checks and jwt.sign
SellerLoginCompare(r, match) ==
    /\ At(r, "sellerLogin", "compare")
    /\ LET c == req[r]
           code == LoginRefusal(match, c.approved)
       IN req' = [req EXCEPT ![r] =
                    [Done("sellerLogin", IF code # 0 THEN Resp(code) ELSE Resp(200))
                     EXCEPT !.seller = c.seller, !.approved = c.approved,
                            !.match = match,
                            !.issued = IF code # 0 THEN NoToken
                                       ELSE Signed(Seller(c.seller))]]
    /\ UNCHANGED db

\* PUT /admin/sellers/:id/approve. A failing mail is caught; a failing
\* createNotification is not, and the request gets no response.
ApproveSeller(r, token, id, mailOk, notifOk) ==
    /\ Free(r)
    /\ LET code == Guard(Roles("approve"), token)
           c == [Entered("approve", "done", token) EXCEPT !.seller = id]
       IN IF code # 0
          THEN /\ req' = [req EXCEPT ![r] = Refused("approve", token, code)]
               /\ UNCHANGED db
          ELSE IF id \notin SellerIds
          THEN /\ req' = [req EXCEPT ![r] = [c EXCEPT !.resp = Resp(404)]]
               /\ UNCHANGED db
          ELSE /\ sellers' = SetApproved(sellers, id, TRUE)
               /\ notifications' =
                     IF notifOk
                     THEN notifications \cup
                            {CreateNotification(None, id, "", "seller approved")}
                     ELSE notifications
               /\ req' = [req EXCEPT ![r] =
                            [c EXCEPT !.resp = IF notifOk THEN Resp(200) ELSE NoResp,
                                      !.sideFailed = ~mailOk \/ ~notifOk]]
               /\ UNCHANGED <<shop, complaints, reviews>>

\* PUT /admin/sellers/:id/reject
RejectSeller(r, token, id, mailOk) ==
    /\ Free(r)
    /\ LET code == Guard(Roles("reject"), token)
           c == [Entered("reject", "done", token) EXCEPT !.seller = id]
       IN IF code # 0
          THEN /\ req' = [req EXCEPT ![r] = Refused("reject", token, code)]
               /\ UNCHANGED db
          ELSE IF id \notin SellerIds
          THEN /\ req' = [req EXCEPT ![r] = [c EXCEPT !.resp = Resp(404)]]
               /\ UNCHANGED db
          ELSE /\ sellers' = SetApproved(sellers, id, FALSE)
               /\ req' = [req EXCEPT ![r] =
                            [c EXCEPT !.resp = Resp(200), !.sideFailed = ~mailOk]]
               /\ UNCHANGED <<stock, carts, cartItems, orders, orderItems, payments,
                              trackingHistory, notifications, nextOrderId,
                              nextCartItemId, now, products, categories, complaints,
                              reviews, imported, creds>>

\* ---------------------------------------------------------------- bulk.ts: complaints
\* The conversation log (Complaint.sellerReply, Review.reply) is a text: entries
\* "[ROLE - name]: text" joined by a blank line. It is modelled as the sequence of
\* its entries; null and the empty text are the empty sequence.
Entry(caller, text) == [role |-> caller.role, text |-> text]

\* the bodies of the reply requests: no text, or one of two texts
Texts == {"", "a", "b"}
ComplaintStatuses == {NoStatus, "RESOLVED"}

\* newReply = newReply ? `${newReply}\n\n${prefix}${reply}` : `${prefix}${reply}`
AppendReply(log, caller, text) == Append(log, Entry(caller, text))

ComplaintIds == DOMAIN complaints
\* reply requests between their read and their write
Replying(op, id) ==
    Cardinality({x \in Slots : /\ req[x].op = op
                               /\ req[x].pc = "update"
                               /\ req[x].complaint = id})

\* POST /complaints: the row, the mail in its try/catch, the notification to the
\* admin; a failing createNotification is not caught
CreateComplaint(r, token, fieldsOk, notifOk) ==
    /\ Free(r)
    /\ Len(complaints) < MaxComplaints
    /\ LET code == Guard(Roles("complaint"), token)
           c == Entered("complaint", "done", token)
       IN IF code # 0
          THEN /\ req' = [req EXCEPT ![r] = Refused("complaint", token, code)]
               /\ UNCHANGED db
          ELSE IF ~fieldsOk
          THEN /\ req' = [req EXCEPT ![r] = [c EXCEPT !.resp = Resp(400)]]
               /\ UNCHANGED db
          ELSE /\ complaints' = Append(complaints,
                                       [userId |-> token.id, status |-> "PENDING",
                                        sellerReply |-> <<>>])
               /\ notifications' =
                     IF notifOk
                     THEN notifications \cup
                            {CreateNotification(None, None, "ADMIN", "complaint")}
                     ELSE notifications
               /\ req' = [req EXCEPT ![r] =
                            [c EXCEPT !.resp = IF notifOk THEN Resp(200) ELSE NoResp,
                                      !.complaint = Len(complaints) + 1,
                                      !.sideFailed = ~notifOk]]
               /\ UNCHANGED <<shop, sellers, reviews>>

\* PUT /complaints/reply/:id up to prisma.complaint.update: the row read and the
\* body check
ComplaintReply(r, token, id, text, status) ==
    /\ Free(r)
    /\ id \in ComplaintIds =>
          Len(complaints[id].sellerReply) + Replying("reply", id)
             + Replying("userReply", id) < MaxReplies
    /\ LET code == Guard(Roles("reply"), token)
           c == [Entered("reply", "update", token)
                 EXCEPT !.complaint = id, !.text = text, !.status = status]
       IN IF code # 0
          THEN req' = [req EXCEPT ![r] = Refused("reply", token, code)]
          ELSE IF id \notin ComplaintIds
          THEN req' = [req EXCEPT ![r] = [c EXCEPT !.pc = "done", !.resp = Resp(404)]]
          ELSE IF text = "" /\ status = NoStatus
          THEN req' = [req EXCEPT ![r] = [c EXCEPT !.pc = "done", !.resp = Resp(400)]]
          ELSE req' = [req EXCEPT ![r] =
                         [c EXCEPT !.log = complaints[id].sellerReply]]
    /\ UNCHANGED db

\* PUT /complaints/reply/:id from prisma.complaint.update on: the write of the
\* text built from the row read, the mail, the notification to the buyer
ComplaintReplyUpdate(r, mailOk, notifOk) ==
    /\ At(r, "reply", "update")
    /\ LET c == req[r]
           newReply == IF c.text # "" THEN AppendReply(c.log, c.caller, c.text)
                       ELSE c.log
       IN /\ complaints' =
                [complaints EXCEPT ![c.complaint] =
                    [@ EXCEPT !.sellerReply = newReply,
                              !.status = IF c.status # NoStatus THEN c.status
                                         ELSE "PROCESSING"]]
          /\ notifications' =
                IF notifOk
                THEN notifications \cup
                       {CreateNotification(complaints[c.complaint].userId, None, "",
                                           "complaint reply")}
                ELSE notifications
          /\ req' = [req EXCEPT ![r] =
                       [c EXCEPT !.pc = "done",
                                 !.resp = IF notifOk THEN Resp(200) ELSE NoResp,
                                 !.sideFailed = ~mailOk \/ ~notifOk]]
    /\ UNCHANGED <<shop, sellers, reviews>>

\* PUT /complaints/user-reply/:id up to prisma.complaint.update
UserReply(r, token, id, text) ==
    /\ Free(r)
    /\ id \in ComplaintIds =>
          Len(complaints[id].sellerReply) + Replying("reply", id)
             + Replying("userReply", id) < MaxReplies
    /\ LET code == Guard(Roles("userReply"), token)
           c == [Entered("userReply", "update", token)
                 EXCEPT !.complaint = id, !.text = text]
       IN IF code # 0
          THEN req' = [req EXCEPT ![r] = Refused("userReply", token, code)]
          ELSE IF text = ""
          THEN req' = [req EXCEPT ![r] = [c EXCEPT !.pc = "done", !.resp = Resp(400)]]
          ELSE IF id \notin ComplaintIds \/ complaints[id].userId # token.id
          THEN req' = [req EXCEPT ![r] = [c EXCEPT !.pc = "done", !.resp = Resp(403)]]
          ELSE req' = [req EXCEPT ![r] =
                         [c EXCEPT !.log = complaints[id].sellerReply]]
    /\ UNCHANGED db

\* PUT /complaints/user-reply/:id from prisma.complaint.update on
UserReplyUpdate(r, notifOk) ==
    /\ At(r, "userReply", "update")
    /\ LET c == req[r]
       IN /\ complaints' =
                [complaints EXCEPT ![c.complaint] =
                    [@ EXCEPT !.sellerReply = AppendReply(c.log, c.caller, c.text)]]
          /\ notifications' =
                IF notifOk
                THEN notifications \cup
                       {CreateNotification(None, None, "ADMIN", "user reply")}
                ELSE notifications
          /\ req' = [req EXCEPT ![r] =
                       [c EXCEPT !.pc = "done",
                                 !.resp = IF notifOk THEN Resp(200) ELSE NoResp,
                                 !.sideFailed = ~notifOk]]
    /\ UNCHANGED <<shop, sellers, reviews>>

\* ---------------------------------------------------------------- testMail.ts: review reply
ReviewIds == DOMAIN reviews

\* POST /reviews/:reviewId/reply up to prisma.review.update; the route is behind
\* authenticateToken alone
ReviewReply(r, token, id, text) ==
    /\ Free(r)
    /\ id \in ReviewIds => Len(reviews[id].reply) < MaxReplies
    /\ LET code == AuthenticateToken(token)
           c == [Entered("reviewReply", "update", token)
                 EXCEPT !.review = id, !.text = text]
       IN IF code # 0
          THEN req' = [req EXCEPT ![r] = Refused("reviewReply", token, code)]
          ELSE IF text = ""
          THEN req' = [req EXCEPT ![r] = [c EXCEPT !.pc = "done", !.resp = Resp(400)]]
          ELSE IF id \notin ReviewIds
          THEN req' = [req EXCEPT ![r] = [c EXCEPT !.pc = "done", !.resp = Resp(404)]]
          ELSE IF token.role = "USER" /\ reviews[id].userId # token.id
          THEN req' = [req EXCEPT ![r] = [c EXCEPT !.pc = "done", !.resp = Resp(403)]]
          ELSE req' = [req EXCEPT ![r] = [c EXCEPT !.log = reviews[id].reply]]
    /\ UNCHANGED db

\* the notification of a reply to a review: a buyer's reply is announced in one row
\* carrying the product's seller and the role ADMIN, any other reply to the buyer
ReviewNotification(caller, review) ==
    IF caller.role = "USER"
    THEN CreateNotification(None, SellerOf(review.productId), "ADMIN", "review reply")
    ELSE CreateNotification(review.userId, None, "", "review reply")

\* POST /reviews/:reviewId/reply from prisma.review.update on
ReviewReplyUpdate(r, notifOk) ==
    /\ At(r, "reviewReply", "update")
    /\ LET c == req[r]
       IN /\ reviews' = [reviews EXCEPT ![c.review] =
                           [@ EXCEPT !.reply = AppendReply(c.log, c.caller, c.text)]]
          /\ notifications' =
                IF notifOk
                THEN notifications \cup {ReviewNotification(c.caller, reviews[c.review])}
                ELSE notifications
          /\ req' = [req EXCEPT ![r] =
                       [c EXCEPT !.pc = "done",
                                 !.resp = IF notifOk THEN Resp(200) ELSE NoResp,
                                 !.sideFailed = ~notifOk]]
    /\ UNCHANGED <<shop, sellers, complaints>>

\* ---------------------------------------------------------------- notification.ts
\* POST /notifications/create: userId, sellerId and role are stored as the body
\* gives them (absent: null). A userId or sellerId without a row breaks a foreign
\* key; the error is not caught.
NotificationCreate(r, token, userId, sellerId, role) ==
    /\ Free(r)
    /\ LET code == AuthenticateToken(token)
           c == Entered("notificationCreate", "done", token)
           fk == /\ userId \in Users \cup {None}
                 /\ sellerId \in SellerIds \cup {None}
       IN IF code # 0
          THEN /\ req' = [req EXCEPT ![r] = Refused("notificationCreate", token, code)]
               /\ UNCHANGED db
          ELSE IF ~fk
          THEN /\ req' = [req EXCEPT ![r] = c]
               /\ UNCHANGED db
          ELSE /\ notifications' = notifications \cup
                     {CreateNotification(userId, sellerId, role, "custom")}
               /\ req' = [req EXCEPT ![r] = [c EXCEPT !.resp = Resp(200)]]
               /\ UNCHANGED <<shop, sellers, complaints, reviews>>

\* ---------------------------------------------------------------- specifications
\* the Authorization headers of the requests
Tokens == {NoToken, Forged(Admin), Signed(Buyer(1)), Signed(Seller(1)), Signed(Admin)}

\* The accounts and the guarded routes, one request at a time: every token, seller
\* registration, login, approval and rejection, complaints and their replies.
NextAccounts ==
    \/ \E r \in Sequential : Return(r)
    \/ \E r \in Sequential, fieldsOk \in BOOLEAN, dup \in BOOLEAN, notifOk \in BOOLEAN :
          SellerRegister(r, fieldsOk, dup, notifOk)
    \/ \E r \in Sequential, id \in 1..(MaxSellers + 1), fieldsOk \in BOOLEAN :
          SellerLogin(r, id, fieldsOk)
    \/ \E r \in Sequential, match \in BOOLEAN : SellerLoginCompare(r, match)
    \/ \E r \in Sequential, token \in Tokens, id \in 1..(MaxSellers + 1),
          mailOk \in BOOLEAN, notifOk \in BOOLEAN :
          ApproveSeller(r, token, id, mailOk, notifOk)
    \/ \E r \in Sequential, token \in Tokens, id \in 1..(MaxSellers + 1),
          mailOk \in BOOLEAN : RejectSeller(r, token, id, mailOk)
    \/ \E r \in Sequential, token \in Tokens, fieldsOk \in BOOLEAN :
          CreateComplaint(r, token, fieldsOk, TRUE)
    \/ \E r \in Sequential, token \in Tokens, id \in 1..MaxComplaints, text \in {"", "a"},
          status \in ComplaintStatuses : ComplaintReply(r, token, id, text, status)
    \/ \E r \in Sequential : ComplaintReplyUpdate(r, TRUE, TRUE)
    \/ \E r \in Sequential, token \in Tokens, id \in 1..MaxComplaints, text \in {"", "a"} :
          UserReply(r, token, id, text)
    \/ \E r \in Sequential : UserReplyUpdate(r, TRUE)

SpecAccounts == Init /\ [][NextAccounts]_vars

\* The routes that notify, one request at a time: seller registration, complaints,
\* review replies with every token, text and failing notification,
\* POST /notifications/create with every choice of recipients.
NextNotifications ==
    \/ \E r \in Sequential : Return(r)
    \/ \E r \in Sequential : SellerRegister(r, TRUE, FALSE, TRUE)
    \/ \E r \in Sequential : CreateComplaint(r, Signed(Buyer(1)), TRUE, TRUE)
    \/ \E r \in Sequential, token \in Tokens \cup {Signed(Buyer(2))}, id \in 1..2,
          text \in Texts : ReviewReply(r, token, id, text)
    \/ \E r \in Sequential, notifOk \in BOOLEAN : ReviewReplyUpdate(r, notifOk)
    \/ \E r \in Sequential, token \in Tokens, userId \in {None, 1},
          sellerId \in {None, MaxSellers + 1}, role \in {"", "ADMIN"} :
          NotificationCreate(r, token, userId, sellerId, role)

SpecNotifications == Init /\ [][NextNotifications]_vars

\* Complaints and their replies, two requests at a time: every reply text, status
\* and failing notification, the callers' tokens verified.
NextComplaints ==
    \/ \E r \in Slots : Return(r)
    \/ \E r \in Slots, fieldsOk \in BOOLEAN, notifOk \in BOOLEAN :
          CreateComplaint(r, Signed(Buyer(1)), fieldsOk, notifOk)
    \/ \E r \in Slots, token \in {Signed(Seller(1)), Signed(Admin)},
          id \in 1..(MaxComplaints + 1), text \in Texts, status \in ComplaintStatuses :
          ComplaintReply(r, token, id, text, status)
    \/ \E r \in Slots, mailOk \in BOOLEAN, notifOk \in BOOLEAN :
          ComplaintReplyUpdate(r, mailOk, notifOk)
    \/ \E r \in Slots, token \in {Signed(Buyer(1)), Signed(Buyer(2))},
          id \in 1..(MaxComplaints + 1), text \in Texts : UserReply(r, token, id, text)
    \/ \E r \in Slots, notifOk \in BOOLEAN : UserReplyUpdate(r, notifOk)

SpecComplaints == Init /\ [][NextComplaints]_vars

\* ---------------------------------------------------------------- order.ts: reads
\* a where clause that takes userId from the query whenever the query names one
OrdersWhereQueryFirst(rows, caller, queryUserId) ==
    IF queryUserId # None THEN {x \in rows : x.userId = queryUserId}
    ELSE IF caller.role = "USER" THEN {x \in rows : x.userId = caller.id}
    ELSE rows

\* GET /orders, the where clause: a USER's own id, else the userId of the query if
\* there is one (the other filters and the page only narrow the result)
OrdersWhere(rows, caller, queryUserId) ==
    IF caller.role = "USER" THEN {x \in rows : x.userId = caller.id}
    ELSE IF queryUserId # None THEN {x \in rows : x.userId = queryUserId}
    ELSE rows

\* GET /orders
ListOrders(r, caller, queryUserId) ==
    /\ Free(r)
    /\ req' = [req EXCEPT ![r] =
                 [Done("listOrders", Resp(200))
                  EXCEPT !.caller = caller, !.user = queryUserId,
                         !.result = OrdersWhere(orders, caller, queryUserId)]]
    /\ UNCHANGED db

\* GET /orders/:id
GetOrder(r, u, o) ==
    /\ Free(r)
    /\ LET end(code) == [Done("getOrder", Resp(code)) EXCEPT !.user = u, !.order = o]
       IN req' = [req EXCEPT ![r] =
                    IF ~OrderExists(o) THEN end(404)
                    ELSE IF OrderRow(o).userId # u THEN end(403)
                    ELSE [end(200) EXCEPT !.result = {OrderRow(o)}]]
    /\ UNCHANGED db

\* Buyers reading and deleting orders, one request at a time: both buyers order by
\* POST /orders, buyer 1 also by checkout; every caller, query and order id.
NextOrders ==
    \/ \E r \in Sequential : Return(r)
    \/ \E r \in Sequential : AddToCart(r, 1, 1, 1)
    \/ \E r \in Sequential : AddToCartCreateCart(r)
    \/ \E r \in Sequential : AddToCartWrite(r)
    \/ \E r \in Sequential : Checkout(r, 1, TRUE)
    \/ \E r \in Sequential : CheckoutTransaction(r, 0)
    \/ \E r \in Sequential : CheckoutSideEffects(r, 0, TRUE, TRUE)
    \/ \E r \in Sequential, u \in Users : CreateOrder(r, u, 1, 1)
    \/ \E r \in Sequential, o \in OrderIds, s \in {"DELIVERED"} :
          UpdateStatus(r, "tracking", o, s, TRUE)
    \/ \E r \in Sequential : SyncPayment(r, "tracking", TRUE)
    \/ \E r \in Sequential : CreateTracking(r, "tracking", TRUE, 0)
    \/ \E r \in Sequential, caller \in {Buyer(u) : u \in Users} \cup {Seller(1), Admin},
          queryUserId \in Users \cup {None} : ListOrders(r, caller, queryUserId)
    \/ \E r \in Sequential, u \in Users, o \in OrderIds \cup {MaxOrders + 1} :
          GetOrder(r, u, o)
    \/ \E r \in Sequential, u \in Users, o \in OrderIds \cup {MaxOrders + 1} :
          DeleteOrder(r, u, o)
    \/ \E r \in Sequential : DeleteOrderItems(r)
    \/ \E r \in Sequential : DeleteOrderRow(r)

SpecOrders == Init /\ [][NextOrders]_vars

\* ---------------------------------------------------------------- products: delete-many
\* the manual cascade: where: { productId: { in: ids } }, for every id of the request
Cascade(caller, ids) == ids

\* where of prisma.product.deleteMany: the ids, and for a seller sellerId = caller's
DeleteWhere(caller, ids) ==
    {p \in ids \cap DOMAIN products : caller.role = "ADMIN" \/ SellerOf(p) = caller.id}

\* the sets of ids a request can send
IdSets == SUBSET (Products \cup {MaxProducts + 1})

\* POST /products/delete-many.  The statements run one after another, outside a
\* transaction: cartItem.deleteMany, review.deleteMany, product.deleteMany (images
\* and variants are not modelled).  failAt = k: statement k throws, and the catch
\* block answers 400 when the error is a foreign key violation (fk: P2003) and 500
\* otherwise.  An OrderItem that refers to a deleted product keeps its row and loses
\* the reference (OrderItem_productId_fkey, ON DELETE SET NULL).  idsOk: ids is an
\* array.
DeleteMany(r, caller, ids, idsOk, failAt, fk) ==
    /\ Free(r)
    /\ LET end(code) == [Done("deleteMany", Resp(code))
                         EXCEPT !.caller = caller, !.ids = ids]
           swept == Cascade(caller, ids)
           gone == DeleteWhere(caller, ids)
           ran == IF failAt # 0 THEN failAt - 1 ELSE 3
       IN IF ~idsOk
          THEN /\ req' = [req EXCEPT ![r] = end(400)]
               /\ UNCHANGED db
          ELSE /\ cartItems' = IF ran >= 1
                               THEN {x \in cartItems : x.productId \notin swept}
                               ELSE cartItems
               /\ reviews' = IF ran >= 2
                             THEN [i \in {j \in DOMAIN reviews :
                                            reviews[j].productId \notin swept}
                                   |-> reviews[i]]
                             ELSE reviews
               /\ products' = IF ran >= 3
                              THEN [p \in DOMAIN products \ gone |-> products[p]]
                              ELSE products
               /\ stock' = IF ran >= 3
                           THEN [p \in DOMAIN stock \ gone |-> stock[p]]
                           ELSE stock
               /\ orderItems' = IF ran >= 3
                                THEN {IF x.productId \in gone
                                      THEN [x EXCEPT !.productId = None] ELSE x :
                                      x \in orderItems}
                                ELSE orderItems
               /\ imported' = NoImport
               /\ req' = [req EXCEPT ![r] =
                            IF failAt = 0 THEN end(200)
                            ELSE IF fk THEN end(400)
                            ELSE end(500)]
               /\ UNCHANGED <<carts, orders, payments, trackingHistory,
                              notifications, nextOrderId, nextCartItemId, now,
                              categories, sellers, complaints, creds>>

\* Sellers deleting products, one request at a time, while buyer 1 fills a cart and
\* orders by POST /orders: every caller, set of ids and failing statement.
NextProducts ==
    \/ \E r \in Sequential : Return(r)
    \/ \E r \in Sequential, p \in Products : AddToCart(r, 1, p, 1)
    \/ \E r \in Sequential : AddToCartCreateCart(r)
    \/ \E r \in Sequential : AddToCartWrite(r)
    \/ \E r \in Sequential, p \in DOMAIN products : CreateOrder(r, 1, p, 1)
    \/ \E r \in Sequential, caller \in Callers, ids \in IdSets, idsOk \in BOOLEAN,
          failAt \in 0..3, fk \in BOOLEAN :
          DeleteMany(r, caller, ids, idsOk, failAt, fk)

SpecProducts == Init /\ [][NextProducts]_vars

\* ---------------------------------------------------------------- notification.ts: reset
\* the passwords a request body can carry
Passwords == {"a", "b"}
\* the steps by which the server's clock moves: to the last instant at which a token
\* issued one step earlier is valid, and one millisecond past it
ClockSteps == {TokenTtl, TokenTtl + 1}
\* a token nobody was sent
BogusToken == MaxTokens + 1

\* the rows of one table: role "SELLER" reads Seller, any other role reads User
TableOf(role) == IF role = "SELLER" THEN "SELLER" ELSE "USER"
\* the rows that exist in the table
RowsOf(role) ==
    IF TableOf(role) = "SELLER" THEN {<<"SELLER", id>> : id \in SellerIds}
    ELSE {<<"USER", id>> : id \in Users}

\* findFirst({ where: { resetToken: token, resetTokenExpiry: { gte: new Date() } } })
FindByToken(role, token, at) ==
    {a \in RowsOf(role) : /\ accounts[a].resetToken = token
                          /\ accounts[a].resetTokenExpiry # None
                          /\ accounts[a].resetTokenExpiry >= at}

\* time passes on the server
Tick(dt) ==
    /\ Quiet
    /\ dateNow + dt <= MaxClock
    /\ dateNow' = dateNow + dt
    /\ UNCHANGED <<stock, carts, cartItems, orders, orderItems, payments,
                   trackingHistory, notifications, nextOrderId, nextCartItemId, now,
                   products, categories, sellers, complaints, reviews, imported,
                   accounts, resets, req>>

\* POST /auth/forgot-password.  fieldsOk: the body has email and role; id: the row
\* with that email, None when there is none; mailOk: sendMail succeeds.  The token is
\* stored before the mail is sent, so a failed mail answers 500 and leaves the token.
\* crypto.randomBytes(32) makes a token no earlier request made: the next number.
ForgotPassword(r, role, id, fieldsOk, mailOk) ==
    /\ Free(r)
    /\ Len(resets) < MaxTokens
    /\ LET end(code) == [Done("forgotPassword", Resp(code))
                         EXCEPT !.role = role, !.target = id]
           a == <<TableOf(role), id>>
           token == Len(resets) + 1
       IN IF ~fieldsOk
          THEN /\ req' = [req EXCEPT ![r] = end(400)]
               /\ UNCHANGED <<accounts, resets>>
          ELSE IF a \notin RowsOf(role)
          THEN /\ req' = [req EXCEPT ![r] = end(404)]
               /\ UNCHANGED <<accounts, resets>>
          ELSE /\ accounts' = [accounts EXCEPT
                                 ![a].resetToken = token,
                                 ![a].resetTokenExpiry = dateNow + TokenTtl]
               /\ resets' = Append(resets, 0)
               /\ req' = [req EXCEPT ![r] =
                            [end(IF mailOk THEN 200 ELSE 500)
                             EXCEPT !.resetToken = token, !.sideFailed = ~mailOk]]
    /\ UNCHANGED <<stock, carts, cartItems, orders, orderItems, payments,
                   trackingHistory, notifications, nextOrderId, nextCartItemId, now,
                   products, categories, sellers, complaints, reviews, imported,
                   dateNow>>

\* POST /auth/reset-password up to bcrypt.hash: the body check and the row read
ResetPassword(r, role, token, newPassword, fieldsOk) ==
    /\ Free(r)
    /\ LET end(code) == [Done("resetPassword", Resp(code))
                         EXCEPT !.role = role, !.resetToken = token,
                                !.newPassword = newPassword]
           found == FindByToken(role, token, dateNow)
       IN IF ~fieldsOk
          THEN req' = [req EXCEPT ![r] = end(400)]
          ELSE IF found = {}
          THEN req' = [req EXCEPT ![r] = end(400)]
          ELSE \E a \in found :
                  req' = [req EXCEPT ![r] =
                            [Idle EXCEPT !.op = "resetPassword", !.pc = "update",
                                         !.role = role, !.resetToken = token,
                                         !.newPassword = newPassword,
                                         !.target = a[2]]]
    /\ UNCHANGED db

\* the rest of reset-password: update({ where: { id: target.id }, data: { password,
\* resetToken: null, resetTokenExpiry: null } }).  dbOk: the update succeeds.
ResetPasswordUpdate(r, dbOk) ==
    /\ At(r, "resetPassword", "update")
    /\ LET c == req[r]
           a == <<TableOf(c.role), c.target>>
       IN IF ~dbOk
          THEN /\ req' = [req EXCEPT ![r] = [@ EXCEPT !.pc = "done", !.resp = Resp(500)]]
               /\ UNCHANGED <<accounts, resets>>
          ELSE /\ accounts' = [accounts EXCEPT
                                 ![a] = [password |-> Hash(c.newPassword),
                                         resetToken |-> None,
                                         resetTokenExpiry |-> None]]
               /\ resets' = [resets EXCEPT ![c.resetToken] = @ + 1]
               /\ req' = [req EXCEPT ![r] = [@ EXCEPT !.pc = "done", !.changed = TRUE,
                                                       !.resp = Resp(200)]]
    /\ UNCHANGED <<stock, carts, cartItems, orders, orderItems, payments,
                   trackingHistory, notifications, nextOrderId, nextCartItemId, now,
                   products, categories, sellers, complaints, reviews, imported,
                   dateNow>>

\* Forgotten and reset passwords, with requests handled at the same time: both
\* tables, a role and token that match no row, a failing mail and a failing update.
NextReset ==
    \/ \E r \in Slots : Return(r)
    \/ \E dt \in ClockSteps : Tick(dt)
    \/ \E r \in Slots, role \in AccountRoles, id \in {None, 1}, fieldsOk \in BOOLEAN,
          mailOk \in BOOLEAN : ForgotPassword(r, role, id, fieldsOk, mailOk)
    \/ \E r \in Slots, role \in AccountRoles, token \in 1..BogusToken,
          newPassword \in Passwords, fieldsOk \in BOOLEAN :
          ResetPassword(r, role, token, newPassword, fieldsOk)
    \/ \E r \in Slots, dbOk \in BOOLEAN : ResetPasswordUpdate(r, dbOk)

SpecReset == Init /\ [][NextReset]_vars

\* ---------------------------------------------------------------- claims
\* Orders made by POST /orders/checkout are the orders with a Payment row: the
\* checkout transaction is the only place that creates one.
CheckoutOrders == {x \in orders : HasPayment(x.id)}

\* request r takes, in this step, the first step of a checkout
StartsCheckout(r) == req[r].pc = "idle" /\ req'[r].op = "checkout"
\* request r runs, in this step, the checkout transaction
RunsTransaction(r) == req[r].op = "checkout" /\ req[r].pc = "tx" /\ req'[r].pc # "tx"
\* request r runs, in this step, the side-effect block of the checkout
RunsSideEffects(r) == req[r].op = "checkout" /\ req[r].pc = "side" /\ req'[r].pc # "side"

\* the rows of user u's cart
CartRows(u) == {x \in cartItems : x.cartId = CartOf(u)}

\* C1: for every order created by checkout, in every state after the commit, the sum
\* of qty * price over its OrderItems equals Order.total, and Order.total equals the
\* amount of its Payment.
C1_TotalsAgree ==
    \A x \in CheckoutOrders :
        /\ SumItems(ItemsOfOrder(x.id)) = x.total
        /\ x.total = PaymentOf(x.id).amount

\* A checkout request of user u fails a precondition in the current state.
PreconditionFails(u, fieldsOk) ==
    \/ ~fieldsOk
    \/ ~HasCart(u)
    \/ CartRows(u) = {}
    \/ \E x \in CartRows(u) : x.qty > stock[x.productId]

\* C2: a checkout request that fails a precondition (missing field, missing or empty
\* cart, a line with qty > stock) is answered with an error and ends there: no Order,
\* OrderItem or Payment is created, no stock changes, the cart rows are unchanged.
C2_RejectedCheckoutHasNoEffect ==
    [][\A r \in Slots :
          (StartsCheckout(r) /\ PreconditionFails(req'[r].user, req'[r].fieldsOk))
          => /\ req'[r].pc = "done"
             /\ req'[r].resp.code = 400
             /\ orders' = orders /\ orderItems' = orderItems /\ payments' = payments
             /\ stock' = stock /\ cartItems' = cartItems /\ carts' = carts]_vars

\* C2 witness: a checkout was rejected with 400 because a line asks for more than
\* the stock, with all four fields given.
C2_Witness ==
    \E r \in Slots :
        /\ req[r].op = "checkout" /\ req[r].pc = "done" /\ req[r].resp.code = 400
        /\ req[r].fieldsOk
        /\ \E x \in CartRows(req[r].user) : x.qty > stock[x.productId]

\* the four effects of the checkout of request c, from the tables before to after
OrderCreated(c) ==
    /\ orders' = orders \cup {[id |-> nextOrderId, userId |-> c.user,
                               total |-> c.total, status |-> "PENDING"]}
    /\ \A x \in orders : x.id # nextOrderId
    /\ \A x \in orderItems : x.orderId # nextOrderId
    /\ {x \in orderItems' : x.orderId # nextOrderId} = orderItems
    /\ Cardinality({x \in orderItems' : x.orderId = nextOrderId}) = Len(c.items)
    /\ \A i \in 1..Len(c.items) :
          \E x \in orderItems' :
              /\ x.orderId = nextOrderId /\ x.line = i
              /\ x.productId = c.items[i].productId
              /\ x.qty = c.items[i].qty /\ x.price = c.items[i].price
PaymentCreated(c) ==
    payments' = payments \cup {[orderId |-> nextOrderId, amount |-> c.total,
                                status |-> "PENDING"]}
StockDecremented(c) ==
    \A p \in Products : stock'[p] = stock[p] - QtyOf(c.items, p, 1)
CartCleared(c) ==
    cartItems' = cartItems \ CartRows(c.user)
NoneOfTheFour ==
    /\ orders' = orders /\ orderItems' = orderItems /\ payments' = payments
    /\ stock' = stock /\ cartItems' = cartItems

\* C3: the checkout transaction is all-or-nothing: when a statement in it fails, the
\* request ends with 500 and none of the four effects (order with items, payment,
\* stock decrement, cart rows deleted) is in the tables; when it commits, all four are.
C3_TransactionAllOrNothing ==
    [][\A r \in Slots :
          RunsTransaction(r)
          => \/ /\ req'[r].pc = "side"
                /\ OrderCreated(req[r]) /\ PaymentCreated(req[r])
                /\ StockDecremented(req[r]) /\ CartCleared(req[r])
             \/ /\ req'[r].pc = "done" /\ req'[r].resp.code = 500
                /\ NoneOfTheFour]_vars

\* C3 witness: a checkout whose transaction failed has ended with 500.
C3_Witness ==
    \E r \in Slots :
        req[r].op = "checkout" /\ req[r].pc = "done" /\ req[r].resp.code = 500

\* C4: for every successful checkout and every cart line in it, the product's stock
\* right after the commit equals its stock before minus the line's quantity.
C4_StockMinusLineQty ==
    [][\A r \in Slots :
          (RunsTransaction(r) /\ req'[r].pc = "side")
          => \A i \in 1..Len(req[r].items) :
                stock'[req[r].items[i].productId]
                   = stock[req[r].items[i].productId] - req[r].items[i].qty]_vars

\* C5: Product.stock is never negative, whatever checkouts run and interleave.
C5_StockNeverNegative == \A p \in Products : stock[p] >= 0

\* C6: right after a successful checkout the user's cart has no CartItems, the Cart
\* row still exists, and the carts of other users (rows and items) are unchanged.
C6_CartEmptiedNotDeleted ==
    [][\A r \in Slots :
          (RunsTransaction(r) /\ req'[r].pc = "side")
          => LET u == req[r].user
             IN /\ {x \in cartItems' : x.cartId = CartOf(u)} = {}
                /\ \E c \in carts' : c.userId = u
                /\ carts' = carts
                /\ {x \in cartItems' : x.cartId # CartOf(u)}
                      = {x \in cartItems : x.cartId # CartOf(u)}]_vars

\* C6 witness: a checkout has just committed while another user's cart holds items.
C6_Witness ==
    \E r \in Slots :
        /\ req[r].op = "checkout" /\ req[r].pc = "side"
        /\ CartRows(req[r].user) = {}
        /\ HasCart(req[r].user)
        /\ \E x \in cartItems : x.cartId # CartOf(req[r].user)

\* C7: after the commit, the side-effect block, whatever fails in it (Notification
\* insert, e-mail, WhatsApp call), changes none of Order, OrderItem, Payment, stock,
\* cart, and the caller's response stays the success response with the order id and
\* the total.
C7_SideEffectFailureIsHarmless ==
    [][\A r \in Slots :
          RunsSideEffects(r)
          => /\ orders' = orders /\ orderItems' = orderItems /\ payments' = payments
             /\ stock' = stock /\ cartItems' = cartItems /\ carts' = carts
             /\ req[r].resp = [code |-> 200, id |-> req[r].order, total |-> req[r].total]
             /\ req'[r].resp = req[r].resp
             /\ \E x \in orders' : x.id = req[r].order /\ x.total = req[r].total
             /\ \E x \in payments' : x.orderId = req[r].order /\ x.amount = req[r].total]_vars

\* C7 witness: a checkout ended with a failed side effect and the success response,
\* its order and payment being in the tables.
C7_Witness ==
    \E r \in Slots :
        /\ req[r].op = "checkout" /\ req[r].pc = "done" /\ req[r].sideFailed
        /\ req[r].resp.code = 200
        /\ OrderExists(req[r].resp.id) /\ HasPayment(req[r].resp.id)

\* a status or tracking request that has ended after changing the status of its order
EndedStatusUpdate(r) ==
    /\ req[r].op \in {"status", "tracking"} /\ req[r].pc = "done"
    /\ req[r].changed

\* C8: for an order that has a Payment, a request that set the order's status to
\* DELIVERED has set the Payment's status to SUCCESS.
C8_DeliveredSetsPaymentSuccess ==
    \A r \in Slots :
        (EndedStatusUpdate(r) /\ req[r].status = "DELIVERED" /\ HasPayment(req[r].order))
        => PaymentOf(req[r].order).status = "SUCCESS"

\* C9: once an order's status is DELIVERED no request changes or deletes the Order
\* row or its items.
C9_DeliveredIsImmutable ==
    [][\A x \in orders :
          x.status = "DELIVERED"
          => /\ x \in orders'
             /\ ItemsOfOrder(x.id) = {y \in orderItems' : y.orderId = x.id}]_vars

\* C10: when a status or tracking request has ended, with success or with an error,
\* and it changed the status of an order, a TrackingHistory row with that order and
\* status was appended for it.
C10_StatusChangeIsTracked ==
    \A r \in Slots :
        EndedStatusUpdate(r)
        => \E i \in (req[r].tlen + 1)..Len(trackingHistory) :
              /\ trackingHistory[i].orderId = req[r].order
              /\ trackingHistory[i].status = req[r].status

\* C13: in every reachable state each user has at most one Cart row, also when two
\* add-to-cart requests of a user without a cart both read 'no cart' before either
\* creates one.
C13_OneCartPerUser ==
    \A u \in Users : Cardinality({c \in carts : c.userId = u}) <= 1

\* C13 witness: an add-to-cart request that read 'no cart' had its cart.create
\* rejected, the user's cart having been created by another request in between.
C13_Witness ==
    \E r \in Slots :
        /\ req[r].op = "addToCart" /\ req[r].pc = "done" /\ req[r].resp = NoResp
        /\ req[r].user # None /\ HasCart(req[r].user)
        /\ Cardinality({c \in carts : c.userId = req[r].user}) = 1

\* request r takes, in this step, the first step of POST /cart or PUT /cart/:id
StartsCartWrite(r) == req[r].pc = "idle" /\ req'[r].op \in {"addToCart", "putCart"}

TimeOrdered(s) == \A i, j \in 1..Len(s) : i < j => s[i].createdAt <= s[j].createdAt

ImportFails(r) ==
    /\ req[r].op = "import" /\ req[r].pc = "row"
    /\ req'[r].pc = "done" /\ req'[r].resp.code = 500

\* C19: the product CSV import is not atomic over the batch: when processing row k
\* fails, what the rows before k created or updated stays in the tables (the failing
\* step undoes nothing), the request ends at row k so that no later row is processed,
\* and the response is one error that carries no counts of the rows applied.
C19_ImportNotAtomic ==
    [][\A r \in Slots :
          /\ ImportFails(r)
             => /\ \A p \in DOMAIN products :
                      /\ p \in DOMAIN products'
                      /\ products'[p] = products[p] /\ stock'[p] = stock[p]
                /\ categories \subseteq categories'
                /\ req'[r].k = req[r].k /\ req[r].k <= Len(req[r].file)
                /\ req'[r].resp = Resp(500)
                /\ req'[r].created = 0 /\ req'[r].updated = 0
          /\ (req[r].op = "import" /\ req[r].pc = "done")
             => (products' = products /\ stock' = stock /\ categories' = categories)]_vars

\* C19 witness: an import has failed at row 2 and ended with 500, and the product
\* that row 1 created is in the Product table.
C19_Witness ==
    \E r \in Slots :
        /\ req[r].op = "import" /\ req[r].pc = "done" /\ req[r].resp.code = 500
        /\ req[r].k = 2
        /\ Cardinality(ProductIds) > Cardinality(Products)
        /\ \E p \in ProductIds \ Products : products[p].title = req[r].file[1].title

\* C20: importing the same file a second time by the same caller, right after the
\* first import ended with success, creates no category and no product: when the
\* second import has ended, the Category and Product tables have the sizes they had
\* when it began.
C20_ImportIdempotent ==
    \A r \in Slots :
        (req[r].op = "import" /\ req[r].pc = "done" /\ req[r].resp.code = 200
            /\ req[r].again)
        => /\ Cardinality(ProductIds) = req[r].nProducts
           /\ Cardinality(categories) = req[r].nCategories

\* ---------------------------------------------------------------- C18
IsPrefix(a, b) == Len(a) <= Len(b) /\ SubSeq(b, 1, Len(a)) = a

\* C18: the conversation log of a complaint is append-only, also when two replies
\* are handled at the same time: no step takes anything away from the log, the log
\* before the step is a prefix of the log after it.
C18_LogAppendOnly ==
    [][\A id \in ComplaintIds :
          IsPrefix(complaints[id].sellerReply, complaints'[id].sellerReply)]_vars

\* ---------------------------------------------------------------- C15
\* how many of the three recipients of a Notification row are set
Recipients(n) ==
    (IF n.userId # None THEN 1 ELSE 0) + (IF n.sellerId # None THEN 1 ELSE 0)
       + (IF n.role = "ADMIN" THEN 1 ELSE 0)

\* C15: every Notification row is addressed to exactly one recipient: exactly one of
\* userId, sellerId and role = "ADMIN" is set, whichever route created the row.
C15_ExactlyOneRecipient == \A n \in notifications : Recipients(n) = 1

\* ---------------------------------------------------------------- C16
\* the routes registered behind authenticateToken and verifyRoles
GuardedOps == {"approve", "reject", "complaint", "reply", "userReply"}
\* the step that takes a request to a guarded route through the middleware
StartsGuarded(r) == req[r].pc = "idle" /\ req'[r].op \in GuardedOps

\* C16: a route behind verifyRoles(R) runs its handler only for a verified token
\* whose role is in R; without a token the answer is 401, with an invalid token 403,
\* with a role outside R 403, and in these three cases the handler is not entered
\* and no table changes.
C16_VerifyRolesGuards ==
    [][\A r \in Slots :
          StartsGuarded(r) =>
             LET c == req'[r]
                 t == c.token
                 verified == t.sig = "ok"
                 allowed == verified /\ t.role \in Roles(c.op)
             IN /\ c.ran => allowed
                /\ t.sig = "none" => c.resp.code = 401
                /\ (t.sig # "none" /\ ~verified) => c.resp.code = 403
                /\ (verified /\ t.role \notin Roles(c.op)) => c.resp.code = 403
                /\ ~allowed => (~c.ran /\ c.pc = "done" /\ UNCHANGED db)]_vars

\* A verified seller token was refused with 403 on the admin's approval route while
\* a seller waits for approval, and a buyer's verified token has filed a complaint.
C16_Witness ==
    /\ \E s \in sellers : ~s.approved
    /\ \E r \in Slots :
          /\ req[r].op = "approve"
          /\ req[r].pc = "done"
          /\ req[r].token = Signed(Seller(1))
          /\ req[r].resp.code = 403
          /\ ~req[r].ran
    /\ \E n \in notifications : n.kind = "complaint"

\* ---------------------------------------------------------------- C17
\* the step that ends a seller login after bcrypt.compare
EndsSellerLogin(r) == req[r].op = "sellerLogin" /\ req[r].pc = "compare"

Paid(rows) == {x.orderId : x \in {y \in rows : y.status = "SUCCESS"}}

\* C28: a Payment has status SUCCESS only if its order's status was set to DELIVERED
\* before: a Payment row is created with status PENDING; the step that writes
\* SUCCESS belongs to a status request for that order with status DELIVERED; and a
\* status request gets to its payment write in the step that writes DELIVERED to
\* the Order row.
C28_SuccessOnlyAfterDelivered ==
    [][/\ \A x \in payments' : ~HasPayment(x.orderId) => x.status = "PENDING"
       /\ \A o \in Paid(payments') \ Paid(payments) :
             \E r \in Slots : /\ req[r].pc = "payment"
                              /\ req[r].op \in {"status", "tracking"}
                              /\ req[r].order = o
                              /\ req[r].status = "DELIVERED"
       /\ \A r \in Slots :
             (req'[r].pc = "payment" /\ req[r].pc # "payment") =>
                \E x \in orders' : /\ x.id = req'[r].order
                                   /\ x.status = "DELIVERED"
                                   /\ req'[r].status = "DELIVERED"]_vars

\* The Payment of an order made by checkout is SUCCESS, and the order, delivered
\* before, has another status by now.
C28_Witness ==
    \E x \in payments :
       /\ x.status = "SUCCESS"
       /\ OrderExists(x.orderId)
       /\ OrderRow(x.orderId).status # "DELIVERED"

\* ---------------------------------------------------------------- C22
\* the step that answers a read of orders, or takes a delete to its first write
StartsOrderRequest(r, op) == req[r].pc = "idle" /\ req'[r].op = op
\* order o exists and belongs to another user than u
OrderOfAnother(u, o) == OrderExists(o) /\ OrderRow(o).userId # u

\* C22: a buyer reads and deletes only their own orders: GET /orders answers a buyer
\* with orders of that buyer only, whatever userId the query names; GET /orders/:id
\* and DELETE /orders/:id on an order of another user answer 403 and change nothing;
\* no step of a delete request removes rows of an order of another user.
C22_BuyerSeesOwnOrders ==
    [][\A r \in Slots :
          /\ StartsOrderRequest(r, "listOrders") =>
                /\ req'[r].caller.role = "USER" =>
                      req'[r].result = {x \in orders : x.userId = req'[r].caller.id}
                /\ UNCHANGED db
          /\ StartsOrderRequest(r, "getOrder") =>
                /\ \A x \in req'[r].result : x.userId = req'[r].user
                /\ OrderOfAnother(req'[r].user, req'[r].order) =>
                      (req'[r].resp.code = 403 /\ req'[r].result = {})
                /\ UNCHANGED db
          /\ StartsOrderRequest(r, "delete") =>
                /\ OrderOfAnother(req'[r].user, req'[r].order) =>
                      (req'[r].resp.code = 403 /\ req'[r].pc = "done")
                /\ UNCHANGED db
          /\ (req[r].op = "delete" /\ req[r].pc # "done") =>
                /\ \A x \in orders \ orders' : x.userId = req[r].user
                /\ \A x \in orderItems \ orderItems' :
                      \E y \in orders : y.id = x.orderId /\ y.userId = req[r].user]_vars

\* Buyer 2, who has an order, asks GET /orders?userId=1 while buyer 1 has orders, and
\* gets none of them.
C22_Witness ==
    \E r \in Slots :
       /\ req[r].op = "listOrders"
       /\ req[r].caller = Buyer(2)
       /\ req[r].user = 1
       /\ req[r].result # {}
       /\ \E x \in orders : x.userId = 1
       /\ \A x \in req[r].result : x.userId = 2

\* ---------------------------------------------------------------- C23
\* C23: DELETE /orders/:id is all-or-nothing: when the request has ended, either the
\* order and all its OrderItem rows are gone, or the order is there with the
\* OrderItem rows it had when the request began; and the order goes only on the
\* answer 200.
C23_DeleteAllOrNothing ==
    \A r \in Slots :
       (req[r].op = "delete" /\ req[r].pc = "done") =>
          LET o == req[r].order
          IN /\ \/ ~OrderExists(o) /\ ItemsOfOrder(o) = {}
                \/ OrderExists(o) /\ ItemsOfOrder(o) = req[r].lines
             /\ req[r].resp.code = 200 => ~OrderExists(o)

\* ---------------------------------------------------------------- C24
\* the step in which the transaction of checkout r commits
Commits(r) == req[r].op = "checkout" /\ req[r].pc = "tx" /\ req'[r].pc = "side"

\* C24: the contents of a cart become at most one order, also when two checkouts of
\* the same user read the cart before either commits: a checkout that commits an
\* order finds every CartItem row it read still in the cart (no other order was made
\* of it).
C24_CartOrderedOnce ==
    [][\A r \in Slots :
          Commits(r) => \A x \in req[r].cartRows : \E y \in cartItems : y.id = x.id]_vars

\* ---------------------------------------------------------------- C25
\* C25: a checkout removes from the cart only what it ordered: every CartItem row its
\* transaction deletes is a row it read, with the quantity it read, also when the
\* same user adds to the cart between the checkout's read and its transaction.
C25_CheckoutRemovesWhatItOrdered ==
    [][\A r \in Slots :
          Commits(r) => \A x \in cartItems \ cartItems' : x \in req[r].cartRows]_vars

\* ---------------------------------------------------------------- C26
\* the total quantity of product p in cart c
QtyInCart(rows, c, p) == SumQty({x \in rows : x.cartId = c /\ x.productId = p})

\* C26: a cart holds at most one CartItem per product, and every accepted POST /cart
\* adds its quantity to the product's quantity in the cart, also for two requests
\* for the same product handled at the same time.
C26_OneLinePerProductSummed ==
    /\ [](\A x \in cartItems, y \in cartItems :
             (x.cartId = y.cartId /\ x.productId = y.productId) => x.id = y.id)
    /\ [][\A r \in Slots :
             (req[r].op = "addToCart" /\ req[r].pc = "item_write"
                 /\ req'[r].resp.code = 200) =>
                QtyInCart(cartItems', req[r].cart, req[r].product)
                   = QtyInCart(cartItems, req[r].cart, req[r].product) + req[r].qty]_vars

\* ---------------------------------------------------------------- C29
\* what the database holds of product p: the row, its stock, its reviews and the
\* cart items that refer to it
Belongings(ps, st, rv, ci, p) ==
    [row |-> IF p \in DOMAIN ps THEN <<ps[p], st[p]>> ELSE <<>>,
     reviews |-> {<<i, rv[i]>> : i \in {j \in DOMAIN rv : rv[j].productId = p}},
     cartItems |-> {x \in ci : x.productId = p}]

\* C29: POST /products/delete-many by a seller leaves everything of other sellers
\* as it was: for every id of the request that is a product of another seller, the
\* product, its reviews and the cart items referring to it are unchanged.
C29_DeleteManyKeepsOthers ==
    [][\A r \in Slots :
          (StartsOrderRequest(r, "deleteMany") /\ req'[r].caller.role = "SELLER") =>
             \A p \in req'[r].ids \cap DOMAIN products :
                SellerOf(p) # req'[r].caller.id =>
                   Belongings(products', stock', reviews', cartItems', p)
                      = Belongings(products, stock, reviews, cartItems, p)]_vars

\* ---------------------------------------------------------------- C30
\* C30: a CSV import by a seller never modifies or creates a product of another
\* seller: a row step of the import changes a product (row or stock) only if the
\* product belongs to the caller, and gives a product it creates the caller's id.
C30_ImportKeepsToOwnProducts ==
    [][\A r \in Slots :
          (req[r].op = "import" /\ req[r].pc = "row" /\ req[r].caller.role = "SELLER") =>
             \A p \in DOMAIN products' :
                IF p \in DOMAIN products
                THEN (products'[p] # products[p] \/ stock'[p] # stock[p]) =>
                        products[p].sellerId = req[r].caller.id
                ELSE products'[p].sellerId = req[r].caller.id]_vars

\* ---------------------------------------------------------------- C21
\* the requests that have side effects after their primary database change
SideEffectOps ==
    {"status", "complaint", "reply", "userReply", "reviewReply", "approve",
     "sellerRegister"}

\* the primary change of an ended request is in the database
PrimaryCommitted(c) ==
    CASE c.op = "sellerRegister" -> c.seller \in SellerIds
      [] c.op = "approve" -> c.seller \in SellerIds /\ SellerRow(c.seller).approved
      [] c.op \in {"complaint", "reply", "userReply"} -> c.complaint \in ComplaintIds
      [] c.op = "reviewReply" -> c.review \in ReviewIds
      [] OTHER -> TRUE

\* C21: a failing side effect (mail, webhook, Notification insert) never turns the
\* request into an error: the primary change stays committed and the caller gets the
\* success response.
C21_SideEffectFailureKeepsSuccess ==
    \A r \in Slots :
       (req[r].pc = "done" /\ req[r].op \in SideEffectOps /\ req[r].sideFailed) =>
          (PrimaryCommitted(req[r]) /\ req[r].resp.code = 200)

\* C27: a reset token is single-use and expires.  No token yields more than one
\* password change, also with two reset requests handled at the same time; a reset
\* request is accepted only with a token that is stored on an account and has not
\* expired; and a step that changes a password with a token finds that token still
\* stored on the account (no reset used it, no newer forgot-password replaced it)
\* and leaves the account without a token.
AcceptsReset(r) == req[r].pc # "update" /\ req'[r].pc = "update"
C27_ResetTokenSingleUse ==
    /\ [](\A t \in DOMAIN resets : resets[t] <= 1)
    /\ [][\A r \in Slots :
            AcceptsReset(r) =>
                LET a == <<TableOf(req'[r].role), req'[r].target>>
                IN /\ accounts[a].resetToken = req'[r].resetToken
                   /\ accounts[a].resetTokenExpiry >= dateNow]_vars
    /\ [][\A t \in DOMAIN resets :
            resets'[t] > resets[t] =>
                \E a \in AccountKeys :
                    /\ accounts[a].resetToken = t
                    /\ accounts'[a].resetToken = None
                    /\ accounts'[a].password \in {Hash(p) : p \in Passwords}]_vars
====
